---------------------------- MODULE Spec2Model ----------------------------
(***************************************************************************)
(* A model of the ontap CLI (FynxLabs/ontap): tree-build and the command   *)
(* compiler of cmd/dynamic.go, the OpenAPI parser of pkg/openapi, the flag *)
(* helpers of internal/pkg/utils, the HTTP client of internal/pkg/http,    *)
(* the response pipeline of internal/pkg/output and the spec cache of      *)
(* internal/pkg/cache.                                                     *)
(*                                                                         *)
(* Text is modelled as sequences of one-character strings, so that         *)
(* ReplaceAll, TrimPrefix, SplitN, HasPrefix and Contains are computed as  *)
(* the Go standard library computes them.                                  *)
(***************************************************************************)
EXTENDS Integers, Sequences, FiniteSets, TLC

(***************************************************************************)
(* Bounds of the model.                                                    *)
(***************************************************************************)
\* longest free-form endpoint path drawn for command naming
MaxPathLen == 3
\* longest token drawn after an optional "Bearer " / "Basic " prefix
MaxTokenLen == 2
\* last tick of the wall clock of the cache model
MaxClock == 3
\* largest time-to-live drawn for a cache entry
MaxTTL == 1
\* number of store calls each goroutine of the concurrent cache model makes
MaxCalls == 2

(***************************************************************************)
(* strings                                                                 *)
(***************************************************************************)
HasPrefix(s, p) == Len(p) <= Len(s) /\ SubSeq(s, 1, Len(p)) = p

TrimPrefix(s, p) == IF HasPrefix(s, p) THEN SubSeq(s, Len(p) + 1, Len(s)) ELSE s

\* the least index at which sub occurs in s, 0 when it does not occur
Index(s, sub) ==
    LET hits == {i \in 1..(Len(s) - Len(sub) + 1) : SubSeq(s, i, i + Len(sub) - 1) = sub}
    IN  IF hits = {} THEN 0 ELSE CHOOSE i \in hits : \A j \in hits : i <= j

Contains(s, sub) == Index(s, sub) # 0

\* strings.ReplaceAll for a non-empty old: non-overlapping, left to right
RECURSIVE ReplaceAll(_, _, _)
ReplaceAll(s, old, new) ==
    IF Len(old) = 0 \/ Len(s) < Len(old) THEN s
    ELSE IF HasPrefix(s, old)
         THEN new \o ReplaceAll(SubSeq(s, Len(old) + 1, Len(s)), old, new)
         ELSE <<Head(s)>> \o ReplaceAll(Tail(s), old, new)

\* strings.SplitN(s, sep, 2)
SplitN2(s, sep) ==
    LET i == Index(s, sep)
    IN  IF i = 0 THEN <<s>>
        ELSE <<SubSeq(s, 1, i - 1), SubSeq(s, i + Len(sep), Len(s))>>

\* strings.Split(s, sep) for a one-character sep
RECURSIVE Split(_, _)
Split(s, sep) ==
    LET i == Index(s, sep)
    IN  IF i = 0 THEN <<s>>
        ELSE <<SubSeq(s, 1, i - 1)>> \o Split(SubSeq(s, i + Len(sep), Len(s)), sep)

RECURSIVE TrimLeft(_)
TrimLeft(s) == IF s # <<>> /\ Head(s) = " " THEN TrimLeft(Tail(s)) ELSE s

RECURSIVE TrimRight(_)
TrimRight(s) ==
    IF s # <<>> /\ s[Len(s)] = " " THEN TrimRight(SubSeq(s, 1, Len(s) - 1)) ELSE s

TrimSpace(s) == TrimRight(TrimLeft(s))

UpperCase == <<"A","B","C","D","E","F","G","H","I","J","K","L","M",
               "N","O","P","Q","R","S","T","U","V","W","X","Y","Z">>
LowerCase == <<"a","b","c","d","e","f","g","h","i","j","k","l","m",
               "n","o","p","q","r","s","t","u","v","w","x","y","z">>

LowerChar(c) ==
    IF \E i \in 1..26 : UpperCase[i] = c
    THEN LowerCase[CHOOSE i \in 1..26 : UpperCase[i] = c]
    ELSE c

ToLower(s) == [i \in 1..Len(s) |-> LowerChar(s[i])]

\* strings.Join(list, sep)
RECURSIVE Join(_, _)
Join(list, sep) ==
    IF list = <<>> THEN <<>>
    ELSE IF Len(list) = 1 THEN list[1]
    ELSE list[1] \o sep \o Join(Tail(list), sep)

\* all sequences over alphabet of length at most n
SeqsUpTo(alphabet, n) == UNION {[1..k -> alphabet] : k \in 0..n}

(***************************************************************************)
(* names used by the program                                               *)
(***************************************************************************)
s_data         == <<"d","a","t","a">>
s_header       == <<"h","e","a","d","e","r">>
s_query        == <<"q","u","e","r","y">>
s_form         == <<"f","o","r","m">>
s_auth         == <<"a","u","t","h">>
s_content_type == <<"c","o","n","t","e","n","t","-","t","y","p","e">>
s_config       == <<"c","o","n","f","i","g">>
s_output       == <<"o","u","t","p","u","t">>
s_log_level    == <<"l","o","g","-","l","e","v","e","l">>
s_verbose      == <<"v","e","r","b","o","s","e">>
s_dry_run      == <<"d","r","y","-","r","u","n">>
s_save         == <<"s","a","v","e">>
s_extract      == <<"e","x","t","r","a","c","t">>
s_filter       == <<"f","i","l","t","e","r">>
s_json         == <<"j","s","o","n">>
s_info         == <<"i","n","f","o">>
s_true         == <<"t","r","u","e">>
s_false        == <<"f","a","l","s","e">>

Methods == { <<"G","E","T">>, <<"P","O","S","T">>, <<"P","U","T">>,
             <<"D","E","L","E","T","E">>, <<"P","A","T","C","H">>,
             <<"H","E","A","D">>, <<"O","P","T","I","O","N","S">>,
             <<"T","R","A","C","E">> }


(***************************************************************************)
(* state                                                                   *)
(***************************************************************************)
VARIABLES
    pc,           \* position of the CLI process between tree-build and exit
    endpoint,     \* the openapi.Endpoint extracted from the description
    apiConfig,    \* the config.APIConfig of the owning API
    argv,         \* the command line: positional args and the flags given
    cmd,          \* the cobra command built for the endpoint
    flagValues,   \* the command's merged flag set after cobra parsed argv
    frame,        \* the locals of executeEndpoint that outlive the request
    req,          \* the http.Request descriptor executeEndpoint assembled
    httpReq,      \* the outbound net/http request Client.Execute built
    sent,         \* how many times the transport's Do was called
    resp,         \* what Client.Execute returned
    stdout,       \* what the command printed or wrote
    output,       \* the data the command handed to WriteOutput
    err,          \* the error the command returned (empty: none)
    now,          \* the wall clock read by time.Now()
    source,       \* the document the spec location currently serves (0: unreachable)
    memoryCache,  \* the store's in-memory index: key -> entry
    disk,         \* the cache directory: key -> entry written to <key>.json
    ret,          \* what the last cache-manager call returned
    calls,        \* the store calls in progress, one record per goroutine
    config,       \* cfg.APIs: the configured APIs, by name
    rootCmd,      \* the API commands added to the root command, by name
    documents,    \* what the description at each spec location declares
    treePc,       \* position of tree-build
    logs,         \* what tree-build logged
    trees,        \* the trees the earlier runs of the program built
    clearEnv,     \* whether ONTAP_CLEAR_CACHE is "true" in the environment
    safeRet       \* what the last call of safeGetSpec returned

execVars  == <<pc, endpoint, apiConfig, argv, cmd, flagValues, frame, req,
               httpReq, sent, resp, stdout, output, err>>
cacheVars == <<now, source, memoryCache, disk, ret, calls>>
treeVars  == <<config, documents, rootCmd, treePc, logs, trees, clearEnv, safeRet>>
vars      == <<execVars, cacheVars, treeVars>>

(***************************************************************************)
(* Go values                                                               *)
(***************************************************************************)
\* a map[string]string that may be nil
NilMap      == [isNil |-> TRUE,  m |-> <<>>]
MakeMap(f)  == [isNil |-> FALSE, m |-> f]

\* an interface{} holding decoded JSON, or nil
NilValue      == [isNil |-> TRUE,  json |-> <<>>]
JSONValue(s)  == [isNil |-> FALSE, json |-> s]

\* a function with one more (or one overwritten) key
Put(f, k, v) == [x \in DOMAIN f \cup {k} |-> IF x = k THEN v ELSE f[x]]

EmptyMap == [x \in {} |-> <<>>]

\* Schema.Default, an interface{}: its dynamic type and its value
NoDefault       == [t |-> "nil",     n |-> 0, s |-> <<>>, b |-> FALSE]
FloatDefault(n) == [t |-> "float64", n |-> n, s |-> <<>>, b |-> FALSE]
StrDefault(s)   == [t |-> "string",  n |-> 0, s |-> s,    b |-> FALSE]
BoolDefault(b)  == [t |-> "bool",    n |-> 0, s |-> <<>>, b |-> b]
NodeDefault(s)  == [t |-> "node",    n |-> 0, s |-> s,    b |-> FALSE]

NilSchema          == [isNil |-> TRUE,  Type |-> <<>>, Default |-> NoDefault]
MakeSchema(ty, d)  == [isNil |-> FALSE, Type |-> ty,   Default |-> d]

Digits == <<"0","1","2","3","4","5","6","7","8","9">>

\* strconv.Itoa for n >= 0
RECURSIVE Itoa(_)
Itoa(n) == IF n < 10 THEN <<Digits[n + 1]>> ELSE Itoa(n \div 10) \o <<Digits[(n % 10) + 1]>>

\* fmt.Sprintf("%v", d) of a non-nil default
FormatV(d) ==
    CASE d.t = "float64" -> Itoa(d.n)
      [] d.t = "bool"    -> IF d.b THEN s_true ELSE s_false
      [] d.t = "string"  -> d.s
      [] OTHER           -> <<"&","{">> \o d.s \o <<"}">>

(***************************************************************************)
(* flags (internal/pkg/utils)                                              *)
(***************************************************************************)
\* a pflag.Flag: its value type, its default and whether cobra requires it
Flag(kind, def, origin) == [kind |-> kind, def |-> def, required |-> FALSE, origin |-> origin]

\* AddGlobalFlags: the persistent flags of the root command
GlobalFlags ==
    LET names == {s_config, s_output, s_log_level, s_verbose, s_dry_run,
                  s_save, s_extract, s_filter}
    IN  [n \in names |->
            CASE n = s_output    -> Flag("string", <<s_json>>, "root")
              [] n = s_log_level -> Flag("string", <<s_info>>, "root")
              [] n = s_verbose   -> Flag("bool", <<s_false>>, "root")
              [] n = s_dry_run   -> Flag("bool", <<s_false>>, "root")
              [] OTHER           -> Flag("string", <<<<>>>>, "root")]

\* AddRequestFlags: the local flags every leaf command gets
RequestFlags ==
    LET names == {s_data, s_header, s_query, s_form, s_auth, s_content_type}
    IN  [n \in names |->
            IF n \in {s_header, s_query, s_form}
            THEN Flag("stringArray", <<>>, "request")
            ELSE Flag("string", <<<<>>>>, "request")]

s_string  == <<"s","t","r","i","n","g">>
s_integer == <<"i","n","t","e","g","e","r">>
s_number  == <<"n","u","m","b","e","r">>
s_boolean == <<"b","o","o","l","e","a","n">>
s_array   == <<"a","r","r","a","y">>

\* addQueryParameterFlag: the flag registered for a query parameter
addQueryParameterFlag(param) ==
    IF param.Schema.isNil THEN Flag("string", <<<<>>>>, "param")
    ELSE LET ty == param.Schema.Type
             d  == param.Schema.Default
         IN  CASE ty = s_string ->
                    Flag("string", <<IF d.t # "nil" THEN FormatV(d) ELSE <<>>>>, "param")
               [] ty \in {s_integer, s_number} ->
                    Flag("int", <<IF d.t = "float64" THEN Itoa(d.n) ELSE <<"0">>>>, "param")
               [] ty = s_boolean ->
                    Flag("bool", <<IF d.t = "bool" /\ d.b THEN s_true ELSE s_false>>, "param")
               [] ty = s_array -> Flag("stringArray", <<>>, "param")
               [] OTHER -> Flag("string", <<<<>>>>, "param")

\* addHeaderParameterFlag
addHeaderParameterFlag(param) == Flag("string", <<<<>>>>, "param")

\* addCookieParameterFlag
addCookieParameterFlag(param) == Flag("string", <<<<>>>>, "param")

\* AddParameterFlags: the loop over the parameters; a parameter whose name is
\* already in cmd.Flags() is skipped, an unsupported location returns at once
RECURSIVE AddParameterFlags(_, _)
AddParameterFlags(flags, parameters) ==
    IF parameters = <<>> THEN [flags |-> flags, err |-> FALSE]
    ELSE LET param == Head(parameters)
             rest  == Tail(parameters)
         IN  IF param.Name \in DOMAIN flags THEN AddParameterFlags(flags, rest)
             ELSE IF param.In = "path" THEN AddParameterFlags(flags, rest)
             ELSE IF param.In \notin {"query", "header", "cookie"}
                  THEN [flags |-> flags, err |-> TRUE]
             ELSE LET f == CASE param.In = "query"  -> addQueryParameterFlag(param)
                             [] param.In = "header" -> addHeaderParameterFlag(param)
                             [] OTHER               -> addCookieParameterFlag(param)
                      g == [f EXCEPT !.required = param.Required]
                  IN  AddParameterFlags(Put(flags, param.Name, g), rest)

(***************************************************************************)
(* command compiler (cmd/dynamic.go)                                       *)
(***************************************************************************)
\* convertParameters: path parameters are dropped, the others copied; the
\* copy reads param.Schema.Type, which panics on a nil Schema
RECURSIVE convertParameters(_)
convertParameters(params) ==
    IF params = <<>> THEN [panic |-> FALSE, out |-> <<>>]
    ELSE LET param == Head(params)
             rest  == convertParameters(Tail(params))
         IN  IF param.In = "path" THEN rest
             ELSE IF param.Schema.isNil THEN [panic |-> TRUE, out |-> <<>>]
             ELSE [panic |-> rest.panic,
                   out |-> IF rest.panic THEN <<>> ELSE <<param>> \o rest.out]

\* the names of the path parameters, in declaration order
RECURSIVE PathParamNames(_)
PathParamNames(params) ==
    IF params = <<>> THEN <<>>
    ELSE IF Head(params).In = "path"
         THEN <<Head(params).Name>> \o PathParamNames(Tail(params))
         ELSE PathParamNames(Tail(params))

\* getCommandUse
getCommandUse(ep) ==
    LET name == IF ep.OperationID = <<>>
                THEN TrimPrefix(ToLower(ep.Method) \o <<"-">>
                                  \o ReplaceAll(ep.Path, <<"/">>, <<"-">>), <<"-">>)
                ELSE ep.OperationID
        pathParams == PathParamNames(ep.Parameters)
    IN  IF Len(pathParams) > 0
        THEN name \o <<" ", "[">> \o Join(pathParams, <<" ">>) \o <<"]">>
        ELSE name

\* cobra's Command.Name(): the use line up to its first space
CommandName(use) ==
    LET i == Index(use, <<" ">>) IN IF i = 0 THEN use ELSE SubSeq(use, 1, i - 1)

NoCmd == [Use |-> <<>>, flags |-> EmptyMap, flagErr |-> FALSE]

\* createEndpointCommand, run during tree-build while the command has no
\* parent yet: cmd.Flags() holds the local flags only; an error of
\* AddParameterFlags is logged and the command returned as it is
createEndpointCommand(ep) ==
    LET conv  == convertParameters(ep.Parameters)
        added == AddParameterFlags(RequestFlags, conv.out)
    IN  IF conv.panic THEN [panic |-> TRUE, cmd |-> NoCmd]
        ELSE [panic |-> FALSE,
              cmd |-> [Use |-> getCommandUse(ep),
                       flags |-> added.flags,
                       flagErr |-> added.err]]

\* tree-build of the one leaf command the invocation is for
CreateEndpointCommand ==
    /\ pc = "start"
    /\ cmd' = createEndpointCommand(endpoint).cmd
    /\ pc' = IF createEndpointCommand(endpoint).panic THEN "panic" ELSE "built"
    /\ UNCHANGED <<endpoint, apiConfig, argv, flagValues, frame, req, httpReq,
                   sent, resp, stdout, err>>
    /\ UNCHANGED output
    /\ UNCHANGED cacheVars
    /\ UNCHANGED treeVars

(***************************************************************************)
(* the files and the JSON the command line can name                        *)
(***************************************************************************)
\* the files that exist, with their contents
Files == [p \in {<<"f">>} |-> <<"{","}">>]

IsDigits(s) == s # <<>> /\ \A i \in 1..Len(s) : \E d \in 1..10 : Digits[d] = s[i]

\* encoding/json Unmarshal into an interface{}, for the documents null, {}
\* and unsigned integers; anything else is a syntax error
JSONUnmarshal(text) ==
    LET t == TrimSpace(text)
    IN  CASE t = <<"n","u","l","l">> -> [ok |-> TRUE, value |-> NilValue]
          [] t = <<"{","}">> -> [ok |-> TRUE, value |-> JSONValue(<<"object">>)]
          [] IsDigits(t) /\ (Len(t) = 1 \/ t[1] # "0") ->
                [ok |-> TRUE, value |-> JSONValue(<<"number">> \o t)]
          [] OTHER -> [ok |-> FALSE, value |-> NilValue]

\* encoding/json Marshal of such a value
JSONMarshal(v) ==
    IF v.isNil THEN <<"n","u","l","l">>
    ELSE IF v.json = <<"object">> THEN <<"{","}">>
    ELSE Tail(v.json)

\* ParseDataFlag
ParseDataFlag(value) ==
    IF HasPrefix(value, <<"@">>)
    THEN LET filePath == Tail(value)
         IN  IF filePath \notin DOMAIN Files
             THEN [ok |-> FALSE, value |-> NilValue]
             ELSE JSONUnmarshal(Files[filePath])
    ELSE JSONUnmarshal(value)

\* ParseHeaderFlags
RECURSIVE ParseHeaderFlagsInto(_, _)
ParseHeaderFlagsInto(headers, values) ==
    IF values = <<>> THEN [ok |-> TRUE, m |-> headers]
    ELSE LET parts == SplitN2(Head(values), <<":">>)
         IN  IF Len(parts) # 2 THEN [ok |-> FALSE, m |-> EmptyMap]
             ELSE ParseHeaderFlagsInto(
                      Put(headers, TrimSpace(parts[1]), TrimSpace(parts[2])),
                      Tail(values))

ParseHeaderFlags(values) == ParseHeaderFlagsInto(EmptyMap, values)

\* ParseQueryFlags
RECURSIVE ParseQueryFlagsInto(_, _)
ParseQueryFlagsInto(params, values) ==
    IF values = <<>> THEN [ok |-> TRUE, m |-> params]
    ELSE LET parts == SplitN2(Head(values), <<"=">>)
         IN  IF Len(parts) # 2 THEN [ok |-> FALSE, m |-> EmptyMap]
             ELSE ParseQueryFlagsInto(Put(params, parts[1], parts[2]), Tail(values))

\* a parser that takes any value list and yields no parameters
ParseQueryFlagsLenient(values) == [ok |-> TRUE, m |-> EmptyMap]

ParseQueryFlags(values) == ParseQueryFlagsInto(EmptyMap, values)

\* ParseFormFlags: both maps are made, never nil, whatever the flags hold
RECURSIVE ParseFormFlagsInto(_, _, _)
ParseFormFlagsInto(formData, formFiles, values) ==
    IF values = <<>>
    THEN [ok |-> TRUE, formData |-> MakeMap(formData), formFiles |-> MakeMap(formFiles)]
    ELSE LET parts == SplitN2(Head(values), <<"=">>)
         IN  IF Len(parts) # 2
             THEN [ok |-> FALSE, formData |-> NilMap, formFiles |-> NilMap]
             ELSE IF HasPrefix(parts[2], <<"@">>)
                  THEN ParseFormFlagsInto(formData, Put(formFiles, parts[1], parts[2]),
                                          Tail(values))
                  ELSE ParseFormFlagsInto(Put(formData, parts[1], parts[2]), formFiles,
                                          Tail(values))

ParseFormFlags(values) == ParseFormFlagsInto(EmptyMap, EmptyMap, values)

(***************************************************************************)
(* cobra: dispatch of the command line to the leaf command                 *)
(***************************************************************************)
\* the flag set of the leaf once cobra has merged the root's persistent
\* flags into it: a persistent flag whose name is already taken is not added
MergedFlags(local) ==
    [n \in DOMAIN local \cup DOMAIN GlobalFlags |->
        IF n \in DOMAIN local THEN local[n] ELSE GlobalFlags[n]]

\* whether a value given on the command line parses as the flag's type
ValidFor(kind, v) ==
    CASE kind = "bool" -> v \in {s_true, s_false}
      [] kind = "int"  -> IsDigits(v)
      [] OTHER         -> TRUE

\* the value a flag holds after parsing: every occurrence for a repeatable
\* flag, the last occurrence for the others, the default when not given
ParsedValue(flag, given) ==
    IF given = <<>> THEN flag.def
    ELSE IF flag.kind = "stringArray" THEN given
    ELSE <<given[Len(given)]>>

NoFlagValues == EmptyMap

\* rootCmd.Execute(): cobra finds the leaf, parses its flags, checks the
\* required ones and calls RunE
Dispatch ==
    /\ pc = "built"
    /\ LET merged == MergedFlags(cmd.flags)
           unknown == \E n \in DOMAIN argv.set : n \notin DOMAIN merged
           invalid == \E n \in DOMAIN argv.set \cap DOMAIN merged :
                         \E i \in 1..Len(argv.set[n]) :
                             ~ValidFor(merged[n].kind, argv.set[n][i])
           missing == \E n \in DOMAIN merged :
                         merged[n].required /\ n \notin DOMAIN argv.set
       IN  IF unknown \/ invalid
           THEN /\ pc' = "done"
                /\ err' = "invalid flag"
                /\ flagValues' = NoFlagValues
           ELSE IF missing
           THEN /\ pc' = "done"
                /\ err' = "required flag(s) not set"
                /\ flagValues' = NoFlagValues
           ELSE /\ pc' = "run"
                /\ err' = ""
                /\ flagValues' =
                     [n \in DOMAIN merged |->
                        [kind |-> merged[n].kind,
                         origin |-> merged[n].origin,
                         changed |-> n \in DOMAIN argv.set,
                         value |-> ParsedValue(merged[n],
                                     IF n \in DOMAIN argv.set THEN argv.set[n] ELSE <<>>)]]
    /\ UNCHANGED <<endpoint, apiConfig, argv, cmd, frame, req, httpReq, sent,
                   resp, stdout>>
    /\ UNCHANGED output
    /\ UNCHANGED cacheVars
    /\ UNCHANGED treeVars

\* pflag's typed getters: an error when the flag is missing or of another type
HasFlagOfKind(fv, name, kind) == name \in DOMAIN fv /\ fv[name].kind = kind

GetString(fv, name) ==
    IF HasFlagOfKind(fv, name, "string")
    THEN [ok |-> TRUE, v |-> fv[name].value[1]]
    ELSE [ok |-> FALSE, v |-> <<>>]

GetBool(fv, name) ==
    IF HasFlagOfKind(fv, name, "bool")
    THEN [ok |-> TRUE, v |-> fv[name].value[1] = s_true]
    ELSE [ok |-> FALSE, v |-> FALSE]

GetStringArray(fv, name) ==
    IF HasFlagOfKind(fv, name, "stringArray")
    THEN [ok |-> TRUE, v |-> fv[name].value]
    ELSE [ok |-> FALSE, v |-> <<>>]

\* GetStringFlagValue
GetStringFlagValue(fv, name) == GetString(fv, name)

(***************************************************************************)
(* request builder (cmd/dynamic.go, executeEndpoint)                       *)
(***************************************************************************)
h_Content_Type  == <<"C","o","n","t","e","n","t","-","T","y","p","e">>
h_User_Agent    == <<"U","s","e","r","-","A","g","e","n","t">>
h_Authorization == <<"A","u","t","h","o","r","i","z","a","t","i","o","n">>
h_X_API_Key     == <<"X","-","A","P","I","-","K","e","y">>
v_OnTap_CLI     == <<"O","n","T","a","p"," ","C","L","I">>
v_json          == <<"a","p","p","l","i","c","a","t","i","o","n","/","j","s","o","n">>
v_multipart     == <<"m","u","l","t","i","p","a","r","t","/","f","o","r","m","-",
                     "d","a","t","a",";"," ","b","o","u","n","d","a","r","y","=","b">>
BearerPrefix    == <<"B","e","a","r","e","r"," ">>
BasicPrefix     == <<"B","a","s","i","c"," ">>

\* url.Values.Add
AddValue(q, k, v) == Put(q, k, (IF k \in DOMAIN q THEN q[k] ELSE <<>>) \o <<v>>)

\* lines 396-403: the loop index i runs over the whole parameter list
RECURSIVE BindPathParams(_, _, _, _)
BindPathParams(path, params, args, i) ==
    IF i > Len(params) THEN path
    ELSE IF params[i].In = "path" /\ i <= Len(args)
         THEN BindPathParams(
                  ReplaceAll(path, <<"{">> \o params[i].Name \o <<"}">>, args[i]),
                  params, args, i + 1)
         ELSE BindPathParams(path, params, args, i + 1)

\* lines 405-414: only query parameters are read, and only through GetString
RECURSIVE AddQueryParams(_, _, _)
AddQueryParams(q, params, fv) ==
    IF params = <<>> THEN q
    ELSE LET param == Head(params)
             got   == GetStringFlagValue(fv, param.Name)
         IN  IF param.In = "query" /\ got.ok /\ got.v # <<>>
             THEN AddQueryParams(AddValue(q, param.Name, got.v), Tail(params), fv)
             ELSE AddQueryParams(q, Tail(params), fv)

\* lines 416-419: the --query overrides are added on top
AddQueryFlags(q, queryParams) ==
    [k \in DOMAIN q \cup DOMAIN queryParams |->
        (IF k \in DOMAIN q THEN q[k] ELSE <<>>)
        \o (IF k \in DOMAIN queryParams THEN <<queryParams[k]>> ELSE <<>>)]

NoFrame == [outputFormat |-> <<>>, savePath |-> <<>>, extractFields |-> <<>>,
            filter |-> <<>>, verbose |-> FALSE, dryRun |-> FALSE, auth |-> <<>>]

NoBody == [mode |-> "none", json |-> <<>>, fields |-> EmptyMap, files |-> EmptyMap]

NoReq == [Method |-> <<>>, Path |-> <<>>, QueryParams |-> EmptyMap,
          Headers |-> EmptyMap, Body |-> NilValue, FormData |-> NilMap,
          FormFiles |-> NilMap, Auth |-> <<>>, DryRun |-> FALSE]

NoHTTPReq == [Method |-> <<>>, Path |-> <<>>, Query |-> EmptyMap,
              Header |-> EmptyMap, Body |-> NoBody]

NoResp == [StatusCode |-> 0, Body |-> <<>>]

\* executeEndpoint, lines 278-419: the flags are read in this order and the
\* first failure returns; then the request descriptor is assembled
executeEndpoint(fv, ep, cfg, args) ==
    LET outputFormat == GetString(fv, s_output)
        savePath     == GetString(fv, s_save)
        extractStr   == GetString(fv, s_extract)
        filter       == GetString(fv, s_filter)
        verbose      == GetBool(fv, s_verbose)
        dryRun       == GetBool(fv, s_dry_run)
        dataStr      == GetString(fv, s_data)
        data         == IF dataStr.ok /\ dataStr.v # <<>>
                        THEN ParseDataFlag(dataStr.v)
                        ELSE [ok |-> TRUE, value |-> NilValue]
        headerStrs   == GetStringArray(fv, s_header)
        headers      == ParseHeaderFlags(headerStrs.v)
        queryStrs    == GetStringArray(fv, s_query)
        queryParams  == ParseQueryFlags(queryStrs.v)
        formStrs     == GetStringArray(fv, s_form)
        form         == ParseFormFlags(formStrs.v)
        authFlag     == GetString(fv, s_auth)
        auth         == IF authFlag.v = <<>> THEN cfg.Auth ELSE authFlag.v
        contentType  == GetString(fv, s_content_type)
        headers2     == IF contentType.v # <<>>
                        THEN Put(headers.m, h_Content_Type, contentType.v)
                        ELSE headers.m
        failure ==
            CASE ~outputFormat.ok -> "failed to get output format"
              [] ~savePath.ok     -> "failed to get save path"
              [] ~extractStr.ok   -> "failed to get extract fields"
              [] ~filter.ok       -> "failed to get filter"
              [] ~verbose.ok      -> "failed to get verbose flag"
              [] ~dryRun.ok       -> "failed to get dry run flag"
              [] ~dataStr.ok      -> "failed to get data flag"
              [] ~data.ok         -> "failed to parse data"
              [] ~headerStrs.ok   -> "failed to get header flags"
              [] ~headers.ok      -> "failed to parse headers"
              [] ~queryStrs.ok    -> "failed to get query flags"
              [] ~queryParams.ok  -> "failed to parse query parameters"
              [] ~formStrs.ok     -> "failed to get form flags"
              [] ~form.ok         -> "failed to parse form data"
              [] ~authFlag.ok     -> "failed to get auth flag"
              [] ~contentType.ok  -> "failed to get content type flag"
              [] OTHER            -> ""
    IN  IF failure # ""
        THEN [err |-> failure, frame |-> NoFrame, req |-> NoReq]
        ELSE [err |-> "",
              frame |-> [outputFormat |-> outputFormat.v,
                         savePath |-> savePath.v,
                         extractFields |-> IF extractStr.v # <<>>
                                           THEN Split(extractStr.v, <<",">>)
                                           ELSE <<>>,
                         filter |-> filter.v,
                         verbose |-> verbose.v,
                         dryRun |-> dryRun.v,
                         auth |-> auth],
              req |-> [Method |-> ep.Method,
                       Path |-> BindPathParams(ep.Path, ep.Parameters, args, 1),
                       QueryParams |-> AddQueryFlags(
                                          AddQueryParams(EmptyMap, ep.Parameters, fv),
                                          queryParams.m),
                       Headers |-> headers2,
                       Body |-> data.value,
                       FormData |-> form.formData,
                       FormFiles |-> form.formFiles,
                       Auth |-> <<>>,
                       DryRun |-> dryRun.v]]

\* the RunE handler up to the call of client.Execute
ExecuteEndpoint ==
    /\ pc = "run"
    /\ LET r == executeEndpoint(flagValues, endpoint, apiConfig, argv.args)
       IN  /\ err' = r.err
           /\ frame' = r.frame
           /\ req' = r.req
           /\ pc' = IF r.err # "" THEN "done" ELSE "execute"
    /\ UNCHANGED <<endpoint, apiConfig, argv, cmd, flagValues, httpReq, sent,
                   resp, stdout>>
    /\ UNCHANGED output
    /\ UNCHANGED cacheVars
    /\ UNCHANGED treeVars

(***************************************************************************)
(* HTTP client (internal/pkg/http)                                         *)
(***************************************************************************)
\* NewClient: the client's default headers
ClientHeaders == [k \in {h_User_Agent} |-> v_OnTap_CLI]

\* base64.StdEncoding, kept symbolic: distinct from every plain string
Base64(s) == <<"base64(">> \o s \o <<")">>

\* http.Request.SetBasicAuth
BasicAuthValue(username, password) ==
    BasicPrefix \o Base64(username \o <<":">> \o password)

\* Client.addAuth: the colon test comes first
addAuth(header, auth) ==
    IF Contains(auth, <<":">>)
    THEN LET parts == SplitN2(auth, <<":">>)
         IN  Put(header, h_Authorization, BasicAuthValue(parts[1], parts[2]))
    ELSE IF HasPrefix(auth, BearerPrefix) THEN Put(header, h_Authorization, auth)
    ELSE IF HasPrefix(auth, BasicPrefix) THEN Put(header, h_Authorization, auth)
    ELSE Put(header, h_X_API_Key, auth)

\* Client.createFormBody: fails when a file to upload cannot be opened
createFormBody(formData, formFiles) ==
    LET missing == \E k \in DOMAIN formFiles.m :
                      /\ HasPrefix(formFiles.m[k], <<"@">>)
                      /\ Tail(formFiles.m[k]) \notin DOMAIN Files
    IN  IF missing THEN [ok |-> FALSE, body |-> NoBody, contentType |-> <<>>]
        ELSE [ok |-> TRUE,
              body |-> [mode |-> "multipart", json |-> <<>>,
                        fields |-> formData.m,
                        files |-> [k \in DOMAIN formFiles.m |->
                                     IF HasPrefix(formFiles.m[k], <<"@">>)
                                     THEN Files[Tail(formFiles.m[k])]
                                     ELSE formFiles.m[k]]],
              contentType |-> v_multipart]

\* Client.createJSONBody
createJSONBody(body) ==
    [ok |-> TRUE,
     body |-> [mode |-> "json", json |-> JSONMarshal(body),
               fields |-> EmptyMap, files |-> EmptyMap],
     contentType |-> v_json]

\* lines 255-268: a form body when either form map is non-nil, else a JSON
\* body when Body is non-nil, else none
createBody(r) ==
    IF ~r.FormData.isNil \/ ~r.FormFiles.isNil
    THEN createFormBody(r.FormData, r.FormFiles)
    ELSE IF ~r.Body.isNil
    THEN createJSONBody(r.Body)
    ELSE [ok |-> TRUE, body |-> NoBody, contentType |-> <<>>]

\* lines 276-285: client headers, then the request's, then the body's type
mergeHeaders(clientHeaders, reqHeaders, contentType) ==
    LET h1 == [k \in DOMAIN clientHeaders \cup DOMAIN reqHeaders |->
                 IF k \in DOMAIN reqHeaders THEN reqHeaders[k] ELSE clientHeaders[k]]
    IN  IF contentType # <<>> THEN Put(h1, h_Content_Type, contentType) ELSE h1

\* lines 287-294
chooseAuth(reqAuth, clientAuth) == IF reqAuth = <<>> THEN clientAuth ELSE reqAuth

\* a dry-run test that never fires
isDryRunIgnored(r) == FALSE

\* line 302: the dry-run test made after the request is built and logged
isDryRun(r) == r.DryRun

\* Client.Execute up to the dry-run test (lines 245-310); the client was made
\* by NewClient(apiConfig.URL, auth)
ClientExecute ==
    /\ pc = "execute"
    /\ LET b == createBody(req)
           h == mergeHeaders(ClientHeaders, req.Headers, b.contentType)
           auth == chooseAuth(req.Auth, frame.auth)
       IN  IF ~b.ok
           THEN /\ err' = "failed to execute request"
                /\ pc' = "done"
                /\ UNCHANGED <<httpReq, resp>>
           ELSE /\ httpReq' = [Method |-> req.Method,
                               Path |-> req.Path,
                               Query |-> req.QueryParams,
                               Header |-> IF auth # <<>> THEN addAuth(h, auth) ELSE h,
                               Body |-> b.body]
                /\ IF isDryRun(req)
                   THEN /\ resp' = NoResp
                        /\ pc' = "returned"
                   ELSE /\ resp' = resp
                        /\ pc' = "transport"
                /\ err' = err
    /\ UNCHANGED <<endpoint, apiConfig, argv, cmd, flagValues, frame, req, sent, stdout>>
    /\ UNCHANGED output
    /\ UNCHANGED cacheVars
    /\ UNCHANGED treeVars

\* what the server may answer
ResponseBodies == { <<>>, <<"{","}">>, <<"o","k">>,
                    <<"{","\"","a","\"",":","{","\"","b","\"",":","1","}","}">>,
                    <<"{","\"","i","t","e","m","s","\"",":","[","{","\"","n","a","m","e","\"",":",
                      "\"","a","\"","}","]","}">> }

\* a client that calls Do again when Do failed
afterDoRetrying(ok) == IF ok THEN "returned" ELSE "transport"

\* where Client.Execute goes after c.HTTPClient.Do: on to the response, or
\* back to executeEndpoint with the error, which ends the command
afterDo(ok) == IF ok THEN "returned" ELSE "done"

\* c.HTTPClient.Do (lines 312-340): the one place a request leaves the process
TransportDo ==
    /\ pc = "transport"
    /\ sent' = sent + 1
    /\ \E ok \in BOOLEAN, body \in ResponseBodies :
          /\ pc' = afterDo(ok)
          /\ IF ok
             THEN /\ resp' = [StatusCode |-> 200, Body |-> body]
                  /\ err' = err
             ELSE /\ body = <<>>
                  /\ resp' = resp
                  /\ err' = "failed to execute request"
    /\ UNCHANGED <<endpoint, apiConfig, argv, cmd, flagValues, frame, req, httpReq, stdout>>
    /\ UNCHANGED output
    /\ UNCHANGED cacheVars
    /\ UNCHANGED treeVars

(***************************************************************************)
(* response pipeline (cmd/dynamic.go, internal/pkg/output)                 *)
(***************************************************************************)
SupportedFormats == { s_json, <<"y","a","m","l">>, <<"y","m","l">>, <<"c","s","v">>,
                      <<"t","e","x","t">>, <<"t","x","t">>, <<"t","a","b","l","e">> }

\* NewFormatter
NewFormatter(format) == ToLower(format) \in SupportedFormats

\* lines 427-431
DryRunCompleted ==
    /\ pc = "returned"
    /\ frame.dryRun
    /\ stdout' = Append(stdout, "dry run completed")
    /\ pc' = "done"
    /\ UNCHANGED <<endpoint, apiConfig, argv, cmd, flagValues, frame, req, httpReq,
                   sent, resp, err>>
    /\ UNCHANGED output
    /\ UNCHANGED cacheVars
    /\ UNCHANGED treeVars

\* decoded response data: nil, a string, a number, an object whose fields
\* hold such data, or an array of such data
JNil       == [kind |-> "nil",    s |-> <<>>, m |-> EmptyMap]
JText(s)   == [kind |-> "string", s |-> s,    m |-> EmptyMap]
JNumber(s) == [kind |-> "number", s |-> s,    m |-> EmptyMap]
JObject(m) == [kind |-> "object", s |-> <<>>, m |-> m]
JArray(es) == [kind |-> "array",  s |-> <<>>, m |-> es]

\* nothing was handed to WriteOutput
NoOutput == [written |-> FALSE, data |-> JNil]

\* the JSON documents among the response bodies, with what json.Unmarshal
\* decodes them to
b_empty  == <<"{","}">>
b_nested == <<"{","\"","a","\"",":","{","\"","b","\"",":","1","}","}">>
b_text   == <<"o","k">>
b_items  == <<"{","\"","i","t","e","m","s","\"",":","[","{","\"","n","a","m","e","\"",":",
              "\"","a","\"","}","]","}">>
s_items  == <<"i","t","e","m","s">>
s_name   == <<"n","a","m","e">>
JSONDocuments ==
    [t \in {b_empty, b_nested, b_items} |->
        CASE t = b_empty  -> JObject(EmptyMap)
          [] t = b_nested -> JObject([k \in {<<"a">>} |->
                                JObject([j \in {<<"b">>} |-> JNumber(<<"1">>)])])
          [] OTHER        -> JObject([k \in {s_items} |->
                                JArray(<< JObject([j \in {s_name} |-> JText(<<"a">>)]) >>)])]

\* lines 433-441: the body decoded as JSON, the raw text when it is not
\* JSON, nil when it is empty
decodeResponse(body) ==
    IF Len(body) = 0 THEN JNil
    ELSE IF body \in DOMAIN JSONDocuments THEN JSONDocuments[body]
    ELSE JText(body)

\* the loop of extractField over the parts of a path
RECURSIVE walkField(_, _)
walkField(current, parts) ==
    IF parts = <<>> THEN [ok |-> TRUE, value |-> current]
    ELSE IF current.kind = "object"
    THEN IF Head(parts) \in DOMAIN current.m
         THEN walkField(current.m[Head(parts)], Tail(parts))
         ELSE [ok |-> FALSE, value |-> JNil]
    ELSE IF current.kind = "array" /\ Head(parts) = <<"[","]">>
    THEN [ok |-> TRUE, value |-> current]
    ELSE [ok |-> FALSE, value |-> JNil]

\* extractField: the value at a dot-separated path, or an error
extractField(data, field) == walkField(data, Split(field, <<".">>))

\* an extraction that keeps every field asked for, nil when it is not found
ExtractFieldsAll(data, fields) ==
    IF Len(fields) = 0 THEN data
    ELSE JObject([f \in { fields[i] : i \in 1..Len(fields) } |->
                    extractField(data, f).value])

\* ExtractFields: the object of the fields found; a field that is not
\* found is logged and left out
ExtractFields(data, fields) ==
    IF Len(fields) = 0 THEN data
    ELSE JObject([f \in { fields[i] : i \in { j \in 1..Len(fields) :
                                               extractField(data, fields[j]).ok } } |->
                    extractField(data, f).value])

\* FilterData: the value at the filter's path, or nil and an error
FilterData(data, filter) ==
    IF filter = <<>> THEN [ok |-> TRUE, value |-> data]
    ELSE extractField(data, filter)

\* lines 433-470: decode, extract, filter, format and write the response;
\* a failure of FilterData is logged and its nil result written
ProcessResponse ==
    /\ pc = "returned"
    /\ ~frame.dryRun
    /\ \E extracted \in { ExtractFields(decodeResponse(resp.Body), frame.extractFields) } :
       \E filtered \in { FilterData(extracted, frame.filter) } :
          /\ logs' = IF filtered.ok THEN logs
                     ELSE logs \cup { [msg |-> "Failed to filter response",
                                       path |-> frame.filter, method |-> <<>>,
                                       name |-> <<>>] }
          /\ IF ~NewFormatter(frame.outputFormat)
             THEN /\ err' = "failed to create formatter"
                  /\ UNCHANGED <<stdout, output>>
             ELSE /\ err' = err
                  /\ output' = [written |-> TRUE, data |-> filtered.value]
                  /\ stdout' = Append(stdout,
                                  IF frame.savePath = <<>> \/ frame.savePath = <<"-">>
                                  THEN "response to stdout" ELSE "response to file")
    /\ pc' = "done"
    /\ UNCHANGED <<endpoint, apiConfig, argv, cmd, flagValues, frame, req, httpReq,
                   sent, resp>>
    /\ UNCHANGED cacheVars
    /\ UNCHANGED <<config, documents, rootCmd, treePc, trees, clearEnv, safeRet>>

(***************************************************************************)
(* spec cache: the store (internal/pkg/cache)                              *)
(***************************************************************************)
\* a function without one key
Remove(f, k) == [x \in DOMAIN f \ {k} |-> f[x]]

\* filepath.Base
RECURSIVE StripSlashes(_)
StripSlashes(s) ==
    IF s # <<>> /\ s[Len(s)] = "/" THEN StripSlashes(SubSeq(s, 1, Len(s) - 1)) ELSE s

RECURSIVE AfterLastSlash(_)
AfterLastSlash(s) ==
    LET i == Index(s, <<"/">>)
    IN  IF i = 0 THEN s ELSE AfterLastSlash(SubSeq(s, i + 1, Len(s)))

Base(path) ==
    IF path = <<>> THEN <<".">>
    ELSE LET t == StripSlashes(path)
         IN  IF t = <<>> THEN <<"/">> ELSE AfterLastSlash(t)

\* GetCachePath, relative to the cache directory
GetCachePath(key) == Base(key) \o <<".","j","s","o","n">>

\* an expiry test that never fires
IsExpiredNever(entry, t) == FALSE

\* LibOpenAPICacheEntry.IsExpired at time t
IsExpired(entry, t) == t > entry.ExpiresAt

\* the entry Set creates at time t
NewEntry(spec, ttl, t) == [Spec |-> spec, CreatedAt |-> t, ExpiresAt |-> t + ttl]

\* json.Unmarshal of the file json.Marshal wrote: the times survive, the
\* document is a decoded copy
Decoded(entry) == [entry EXCEPT !.Spec.decoded = TRUE]

\* Delete, with a reliable disk
StoreDelete(mem, dsk, key) ==
    [mem |-> Remove(mem, key), dsk |-> Remove(dsk, GetCachePath(key))]

\* Set at time t; the memory index is written first, the file after it, and
\* the file may fail to be written
StoreSet(mem, dsk, key, spec, ttl, t, written) ==
    [mem |-> Put(mem, key, NewEntry(spec, ttl, t)),
     dsk |-> IF written THEN Put(dsk, GetCachePath(key), NewEntry(spec, ttl, t)) ELSE dsk,
     ok  |-> written]

NoEntry == [Spec |-> [loc |-> <<>>, version |-> 0, decoded |-> FALSE],
            CreatedAt |-> 0, ExpiresAt |-> 0]

\* Get at time t: memory first, then the file; an expired entry is deleted
StoreGet(mem, dsk, key, t) ==
    IF key \in DOMAIN mem
    THEN IF IsExpired(mem[key], t)
         THEN LET d == StoreDelete(mem, dsk, key)
              IN  [ok |-> FALSE, entry |-> NoEntry, mem |-> d.mem, dsk |-> d.dsk]
         ELSE [ok |-> TRUE, entry |-> mem[key], mem |-> mem, dsk |-> dsk]
    ELSE IF GetCachePath(key) \notin DOMAIN dsk
         THEN [ok |-> FALSE, entry |-> NoEntry, mem |-> mem, dsk |-> dsk]
         ELSE LET entry == Decoded(dsk[GetCachePath(key)])
              IN  IF IsExpired(entry, t)
                  THEN LET d == StoreDelete(mem, dsk, key)
                       IN  [ok |-> FALSE, entry |-> NoEntry, mem |-> d.mem, dsk |-> d.dsk]
                  ELSE [ok |-> TRUE, entry |-> entry,
                        mem |-> Put(mem, key, entry), dsk |-> dsk]

(***************************************************************************)
(* spec cache: the manager                                                 *)
(***************************************************************************)
\* the spec locations of the configured APIs
Locations == { <<"a","/","s">> }

\* the versions of its document a location serves over time; a location
\* whose source holds 0 serves nothing
Versions == {1, 2}

\* hex(sha256(specPath)), kept symbolic: injective, and free of "/"
Sha256Hex(specPath) ==
    <<"sha256:">> \o [i \in 1..Len(specPath) |->
                        IF specPath[i] = "/" THEN "%" ELSE specPath[i]]

\* a key that does not depend on the location
managerCacheKeyShared(specPath) == <<"k">>

\* LibOpenAPICacheManager.generateCacheKey
managerCacheKey(specPath) == Sha256Hex(specPath)

\* LoadLibOpenAPISpec: the document the location serves now, if it serves one
LoadLibOpenAPISpec(src, specPath) ==
    [ok |-> src[specPath] # 0,
     spec |-> [loc |-> specPath, version |-> src[specPath], decoded |-> FALSE]]

\* the entry a lookup of key meets: the memory index's, else the file's
Visible(mem, dsk, key) ==
    IF key \in DOMAIN mem THEN [present |-> TRUE, entry |-> mem[key]]
    ELSE IF GetCachePath(key) \in DOMAIN dsk
         THEN [present |-> TRUE, entry |-> dsk[GetCachePath(key)]]
         ELSE [present |-> FALSE, entry |-> NoEntry]

\* what the call that has just returned returned, and whether it met an
\* expired entry; NoRet once anything else has happened
NoRet == [op |-> "none", loc |-> <<>>, ok |-> FALSE, fromCache |-> FALSE,
          entry |-> NoEntry, foundExpired |-> FALSE, ttl |-> 0, hadFresh |-> FALSE]

\* LibOpenAPICacheManager.GetSpec on a store and a source: the store's Get
\* reads the clock at t1, the manager's expiry test at t2, Set at t3
managerGetSpec(mem, dsk, src, specPath, ttl, t1, t2, t3, written) ==
    LET key == managerCacheKey(specPath)
        g   == StoreGet(mem, dsk, key, t1)
        l   == LoadLibOpenAPISpec(src, specPath)
        st  == StoreSet(g.mem, g.dsk, key, l.spec, ttl, t3, written)
    IN  IF g.ok /\ ~IsExpired(g.entry, t2)
        THEN [ok |-> TRUE, fromCache |-> TRUE, stored |-> FALSE, entry |-> g.entry,
              mem |-> g.mem, dsk |-> g.dsk, at |-> t2]
        ELSE IF ~l.ok
        THEN [ok |-> FALSE, fromCache |-> FALSE, stored |-> FALSE, entry |-> NoEntry,
              mem |-> g.mem, dsk |-> g.dsk, at |-> t2]
        ELSE [ok |-> TRUE, fromCache |-> FALSE, stored |-> TRUE,
              entry |-> NewEntry(l.spec, ttl, t3),
              mem |-> st.mem, dsk |-> st.dsk, at |-> t3]

\* a call of LibOpenAPICacheManager.GetSpec; the clock may advance by d1
\* between the store's expiry test and the manager's, and by d2 before Set
\* reads it
GetSpec(specPath, ttl, d1, d2, written) ==
    LET r == managerGetSpec(memoryCache, disk, source, specPath, ttl,
                            now, now + d1, now + d1 + d2, written)
        v == Visible(memoryCache, disk, managerCacheKey(specPath))
    IN  /\ now + d1 + d2 <= MaxClock
        /\ r.stored \/ (d2 = 0 /\ written)
        /\ memoryCache' = r.mem
        /\ disk' = r.dsk
        /\ now' = r.at
        /\ ret' = [NoRet EXCEPT !.op = "GetSpec", !.loc = specPath,
                                !.foundExpired = v.present /\ now > v.entry.ExpiresAt,
                                !.ok = r.ok, !.fromCache = r.fromCache,
                                !.entry = r.entry]
        /\ UNCHANGED <<source, calls>>
        /\ UNCHANGED execVars
        /\ UNCHANGED treeVars

\* a direct call of the store's Set, as the commands that manage the cache make
CallSet(key, version, ttl, written) ==
    LET st == StoreSet(memoryCache, disk, key,
                       [loc |-> <<>>, version |-> version, decoded |-> FALSE],
                       ttl, now, written)
    IN  /\ memoryCache' = st.mem
        /\ disk' = st.dsk
        /\ ret' = [NoRet EXCEPT !.op = "Set", !.ok = st.ok]
        /\ UNCHANGED <<now, source, calls>>
        /\ UNCHANGED execVars
        /\ UNCHANGED treeVars

\* a direct call of the store's Get
CallGet(key) ==
    LET g == StoreGet(memoryCache, disk, key, now)
        v == Visible(memoryCache, disk, key)
    IN  /\ memoryCache' = g.mem
        /\ disk' = g.dsk
        /\ ret' = [NoRet EXCEPT !.op = "Get", !.ok = g.ok, !.entry = g.entry,
                                !.fromCache = g.ok,
                                !.foundExpired = v.present /\ now > v.entry.ExpiresAt]
        /\ UNCHANGED <<now, source, calls>>
        /\ UNCHANGED execVars
        /\ UNCHANGED treeVars

\* a direct call of the store's Delete
CallDelete(key) ==
    LET d == StoreDelete(memoryCache, disk, key)
    IN  /\ memoryCache # EmptyMap \/ disk # EmptyMap
        /\ memoryCache' = d.mem
        /\ disk' = d.dsk
        /\ ret' = [NoRet EXCEPT !.op = "Delete", !.ok = TRUE]
        /\ UNCHANGED <<now, source, calls>>
        /\ UNCHANGED execVars
        /\ UNCHANGED treeVars

\* time passes
Tick ==
    /\ now < MaxClock
    /\ now' = now + 1
    /\ ret' = NoRet
    /\ UNCHANGED <<source, memoryCache, disk, calls>>
    /\ UNCHANGED execVars
    /\ UNCHANGED treeVars

\* the document at a location is republished, or the location goes away
SourceChange(specPath) ==
    /\ \E v \in {0} \cup Versions :
          /\ v # source[specPath]
          /\ source' = [source EXCEPT ![specPath] = v]
    /\ ret' = NoRet
    /\ UNCHANGED <<now, memoryCache, disk, calls>>
    /\ UNCHANGED execVars
    /\ UNCHANGED treeVars

\* the process exits and a new one starts: the memory index is empty again,
\* the cache directory is kept
Restart ==
    /\ memoryCache # EmptyMap
    /\ memoryCache' = EmptyMap
    /\ ret' = NoRet
    /\ UNCHANGED <<now, source, disk, calls>>
    /\ UNCHANGED execVars
    /\ UNCHANGED treeVars

(***************************************************************************)
(* spec cache: the store under concurrent callers                          *)
(*                                                                         *)
(* Each goroutine makes calls of Set, Get and Delete on one key.  A step   *)
(* is what a call does while it holds the store's lock, or one file        *)
(* operation made outside the lock; the disk is reliable here.             *)
(***************************************************************************)
Goroutines == {1, 2}

\* the key the concurrent callers share
theKey == managerCacheKey(<<"a","/","s">>)

Idle(n) == [op |-> "idle", pc |-> "idle", entry |-> NoEntry, done |-> n,
            ok |-> FALSE, last |-> "none"]

Finish(c, ok) == [op |-> "idle", pc |-> "idle", entry |-> c.entry,
                  done |-> c.done + 1, ok |-> ok, last |-> c.op]

storeVars == <<now, source, ret>>

\* Set, lines 125-130: the entry is built before the lock is taken
BeginSet(g) ==
    /\ calls[g].op = "idle" /\ calls[g].done < MaxCalls
    /\ \E ttl \in 0..MaxTTL :
          calls' = [calls EXCEPT ![g] =
                      [op |-> "Set", pc |-> "set.mem",
                       entry |-> NewEntry([loc |-> <<"a","/","s">>,
                                           version |-> g, decoded |-> FALSE],
                                          ttl, now),
                       done |-> calls[g].done, ok |-> FALSE,
                       last |-> calls[g].last]]
    /\ UNCHANGED <<memoryCache, disk>>
    /\ UNCHANGED storeVars
    /\ UNCHANGED execVars
    /\ UNCHANGED treeVars

\* Set, lines 133-135: the memory index is written under the lock
SetMemory(g) ==
    /\ calls[g].pc = "set.mem"
    /\ memoryCache' = Put(memoryCache, theKey, calls[g].entry)
    /\ calls' = [calls EXCEPT ![g].pc = "set.file"]
    /\ UNCHANGED disk
    /\ UNCHANGED storeVars
    /\ UNCHANGED execVars
    /\ UNCHANGED treeVars

\* Set, lines 137-154: the file is written after the lock is released
SetFile(g) ==
    /\ calls[g].pc = "set.file"
    /\ disk' = Put(disk, GetCachePath(theKey), calls[g].entry)
    /\ calls' = [calls EXCEPT ![g] = Finish(calls[g], TRUE)]
    /\ UNCHANGED memoryCache
    /\ UNCHANGED storeVars
    /\ UNCHANGED execVars
    /\ UNCHANGED treeVars

BeginDelete(g) ==
    /\ calls[g].op = "idle" /\ calls[g].done < MaxCalls
    /\ calls' = [calls EXCEPT ![g] = [op |-> "Delete", pc |-> "del.mem",
                                      entry |-> NoEntry,
                                      done |-> calls[g].done, ok |-> FALSE,
                                      last |-> calls[g].last]]
    /\ UNCHANGED <<memoryCache, disk>>
    /\ UNCHANGED storeVars
    /\ UNCHANGED execVars
    /\ UNCHANGED treeVars

\* Delete, lines 160-162: the memory index under the lock; also the first
\* half of the Delete that Get makes for an expired entry
DeleteMemory(g) ==
    /\ calls[g].pc = "del.mem"
    /\ memoryCache' = Remove(memoryCache, theKey)
    /\ calls' = [calls EXCEPT ![g].pc = "del.file"]
    /\ UNCHANGED disk
    /\ UNCHANGED storeVars
    /\ UNCHANGED execVars
    /\ UNCHANGED treeVars

\* Delete, lines 164-171: the file is removed after the lock is released; a
\* Get that came here returns "cache entry expired"
DeleteFile(g) ==
    /\ calls[g].pc = "del.file"
    /\ disk' = Remove(disk, GetCachePath(theKey))
    /\ calls' = [calls EXCEPT ![g] = Finish(calls[g], calls[g].op = "Delete")]
    /\ UNCHANGED memoryCache
    /\ UNCHANGED storeVars
    /\ UNCHANGED execVars
    /\ UNCHANGED treeVars

BeginGet(g) ==
    /\ calls[g].op = "idle" /\ calls[g].done < MaxCalls
    /\ calls' = [calls EXCEPT ![g] = [op |-> "Get", pc |-> "get.mem",
                                      entry |-> NoEntry,
                                      done |-> calls[g].done, ok |-> FALSE,
                                      last |-> calls[g].last]]
    /\ UNCHANGED <<memoryCache, disk>>
    /\ UNCHANGED storeVars
    /\ UNCHANGED execVars
    /\ UNCHANGED treeVars

\* Get, lines 77-90: the memory index is read under the read lock
GetMemory(g) ==
    /\ calls[g].pc = "get.mem"
    /\ calls' = [calls EXCEPT ![g] =
          IF theKey \in DOMAIN memoryCache
          THEN IF IsExpired(memoryCache[theKey], now)
               THEN [calls[g] EXCEPT !.pc = "del.mem", !.entry = memoryCache[theKey]]
               ELSE Finish([calls[g] EXCEPT !.entry = memoryCache[theKey]], TRUE)
          ELSE [calls[g] EXCEPT !.pc = "get.file"]]
    /\ UNCHANGED <<memoryCache, disk>>
    /\ UNCHANGED storeVars
    /\ UNCHANGED execVars
    /\ UNCHANGED treeVars

\* Get, lines 92-112: the file is read without the lock
GetFile(g) ==
    /\ calls[g].pc = "get.file"
    /\ calls' = [calls EXCEPT ![g] =
          IF GetCachePath(theKey) \notin DOMAIN disk
          THEN Finish(calls[g], FALSE)
          ELSE LET entry == Decoded(disk[GetCachePath(theKey)])
               IN  IF IsExpired(entry, now)
                   THEN [calls[g] EXCEPT !.pc = "del.mem", !.entry = entry]
                   ELSE [calls[g] EXCEPT !.pc = "get.fill", !.entry = entry]]
    /\ UNCHANGED <<memoryCache, disk>>
    /\ UNCHANGED storeVars
    /\ UNCHANGED execVars
    /\ UNCHANGED treeVars

\* Get, lines 114-119: the entry read from the file is put in the memory
\* index under the lock
GetFill(g) ==
    /\ calls[g].pc = "get.fill"
    /\ memoryCache' = Put(memoryCache, theKey, calls[g].entry)
    /\ calls' = [calls EXCEPT ![g] = Finish(calls[g], TRUE)]
    /\ UNCHANGED disk
    /\ UNCHANGED storeVars
    /\ UNCHANGED execVars
    /\ UNCHANGED treeVars

(***************************************************************************)
(* the command lines, endpoints and configurations explored                *)
(***************************************************************************)
Param(name, in, schema, required) ==
    [Name |-> name, In |-> in, Required |-> required, Schema |-> schema]

PathParam(name) == Param(name, "path", MakeSchema(s_string, NoDefault), TRUE)

Endpoint(method, path, operationID, parameters) ==
    [Method |-> method, Path |-> path, OperationID |-> operationID,
     Parameters |-> parameters, Tags |-> <<>>, Deprecated |-> FALSE]

APIConfig(auth, headers) == [Auth |-> auth, Headers |-> headers]

\* a command line: the positional arguments and the flags it sets, each with
\* the values given to it in order
Argv(args, set) == [args |-> args, set |-> set]

\* the command line with --dry-run added or not
WithDryRun(set, dry) == IF dry THEN Put(set, s_dry_run, <<s_true>>) ELSE set

Input(ep, cfg, av) == [endpoint |-> ep, apiConfig |-> cfg, argv |-> av]

s_id     == <<"i","d">>
s_get    == <<"G","E","T">>
s_post   == <<"P","O","S","T">>
p_pets_id  == <<"/","p","e","t","s","/","{","i","d","}">>
p_users_id == <<"/","u","s","e","r","s","/","{","i","d","}">>
p_p        == <<"/","p">>
op_getPet  == <<"g","e","t","P","e","t">>
NoConfig   == APIConfig(<<>>, EmptyMap)

\* endpoints of every method, with short paths and the two paths of the
\* documentation, with and without an operation id
NamingInputs ==
    LET paths == { p \in SeqsUpTo({"/", "p", "-"}, MaxPathLen) :
                      p # <<>> /\ p[1] = "/" } \cup {p_pets_id, p_users_id}
    IN  { Input(Endpoint(m, p, o, IF Contains(p, <<"{">>) /\ declared
                                  THEN <<PathParam(s_id)>> ELSE <<>>),
                NoConfig,
                Argv(IF Contains(p, <<"{">>) THEN <<<<"7">>>> ELSE <<>>,
                     WithDryRun(EmptyMap, dry))) :
            m \in Methods, p \in paths, o \in {<<>>, op_getPet},
            declared \in BOOLEAN, dry \in BOOLEAN }

\* the parameter lists without repetition drawn from a set of parameters
RECURSIVE Arrangements(_)
Arrangements(S) ==
    {<<>>} \cup UNION { { <<x>> \o r : r \in Arrangements(S \ {x}) } : x \in S }

\* endpoints with up to two path placeholders and a query parameter declared
\* in any order, called with up to MaxArgs positional arguments
MaxArgs == 2
MaxRuns == 2

BindingInputs ==
    LET a == <<"/","{","a","}">>
        b == <<"/","{","b","}">>
        paths  == { a, a \o b, b \o a }
        params == { PathParam(<<"a">>), PathParam(<<"b">>),
                    Param(<<"q">>, "query", MakeSchema(s_string, NoDefault), FALSE) }
    IN  { Input(Endpoint(s_get, p, <<>>, ps), NoConfig, Argv(args, WithDryRun(EmptyMap, dry))) :
            p \in paths, ps \in Arrangements(params),
            args \in SeqsUpTo({<<"7">>, <<"8">>}, MaxArgs), dry \in BOOLEAN }

\* the flag values tried for --data, --form, --header and --content-type;
\* <<>> stands for a flag that is not given
DataValues == { <<>>, <<<<"{","}">>>>, <<<<"7">>>>, <<<<"n","u","l","l">>>>,
                <<<<"x">>>>, <<<<"@","f">>>>, <<<<"@","g">>>> }
FormValues == { <<>>, <<<<"k","=","v">>>>, <<<<"k","=","@","f">>>>,
                <<<<"k","=","@","g">>>>, <<<<"b","a","d">>>> }
HeaderValues == { <<>>, <<<<"X","-","A",":","1">>>>,
                  <<h_Content_Type \o <<":"," ","t","/","h">>>>,
                  <<<<"b","a","d">>>> }
ContentTypeValues == { <<>>, <<<<"t","/","c">>>> }
ConfigHeaders == { EmptyMap, [k \in {<<"X","-","E">>} |-> <<"p">>],
                   [k \in {<<"X","-","A">>} |-> <<"c">>] }

\* the flags of a command line: those of the given names whose value list is
\* not empty
FlagsSet(names, values) ==
    [n \in {m \in names : values[m] # <<>>} |-> values[n]]

BodyInputs ==
    { Input(Endpoint(s_post, p_p, <<>>, <<>>),
            APIConfig(<<>>, ch),
            Argv(<<>>, WithDryRun(
                   FlagsSet({s_data, s_form, s_header, s_content_type},
                            [n \in {s_data, s_form, s_header, s_content_type} |->
                               CASE n = s_data   -> d
                                 [] n = s_form   -> f
                                 [] n = s_header -> h
                                 [] OTHER        -> ct]), dry))) :
        d \in DataValues, f \in FormValues, h \in HeaderValues,
        ct \in ContentTypeValues, ch \in ConfigHeaders, dry \in BOOLEAN }

\* one declared parameter: its name, location and schema, and the value its
\* flag is given
ParamNames == { <<"q">>, s_data, s_header, s_output, s_dry_run, s_verbose }
s_object == <<"o","b","j","e","c","t">>
ParamSchemas == { NilSchema } \cup
                { MakeSchema(ty, NoDefault) :
                    ty \in {s_string, s_integer, s_number, s_boolean, s_array, s_object} } \cup
                { MakeSchema(s_string, StrDefault(<<"x">>)),
                  MakeSchema(s_integer, FloatDefault(10)),
                  MakeSchema(s_integer, NodeDefault(<<"1","0">>)),
                  MakeSchema(s_boolean, BoolDefault(TRUE)) }
ParamValues == { <<>>, <<<<"5">>>>, <<s_true>>, <<<<"x">>>> }

ParamInputs ==
    { Input(Endpoint(s_get, p_p, <<>>, <<Param(n, in, sc, rq)>>),
            NoConfig,
            Argv(<<>>, WithDryRun(FlagsSet({n}, [m \in {n} |-> v]), dry))) :
        n \in ParamNames, in \in {"query", "header", "cookie"}, sc \in ParamSchemas,
        rq \in BOOLEAN, v \in ParamValues, dry \in BOOLEAN }

\* two declared parameters: a query parameter q, before or after a parameter
\* whose flag cannot be registered (its name is taken, or its location is
\* none of query, header and cookie) or can
FlagFailureInputs ==
    LET first == { Param(s_data, "query", MakeSchema(s_string, NoDefault), FALSE),
                   Param(<<"b">>, "body", MakeSchema(s_object, NoDefault), FALSE),
                   Param(<<"h">>, "header", MakeSchema(s_string, NoDefault), FALSE) }
    IN  { Input(Endpoint(s_post, p_p, <<>>, ps),
                NoConfig,
                Argv(<<>>, WithDryRun(FlagsSet({<<"q">>}, [m \in {<<"q">>} |-> v]), dry))) :
            ps \in UNION { { <<f, Param(<<"q">>, "query", MakeSchema(s_string, NoDefault), rq)>>,
                              <<Param(<<"q">>, "query", MakeSchema(s_string, NoDefault), rq), f>> } :
                            f \in first, rq \in BOOLEAN },
            v \in { <<>>, <<<<"x">>>> }, dry \in BOOLEAN }

\* --extract and --filter given or not, with paths the response has or lacks
PipelineInputs ==
    { Input(Endpoint(s_get, p_p, <<>>, <<>>),
            NoConfig,
            Argv(<<>>, WithDryRun(
                   FlagsSet({s_extract, s_filter},
                            [n \in {s_extract, s_filter} |->
                               IF n = s_extract THEN e ELSE f]), dry))) :
        e \in { <<>>, <<<<"a">>>>, <<<<"a",",","z">>>>, <<<<"z">>>>,
                 <<<<"i","t","e","m","s",".","n","a","m","e">>>>,
                 <<<<"i","t","e","m","s",".","[","]">>>> },
        f \in { <<>>, <<<<"a">>>>, <<<<"a",".","b">>>>, <<<<"z">>>> },
        dry \in BOOLEAN }

\* --query and --data given or not, well-formed or not
SyntaxInputs ==
    { Input(Endpoint(s_get, p_p, <<>>, <<>>),
            NoConfig,
            Argv(<<>>, WithDryRun(
                   FlagsSet({s_query, s_data},
                            [n \in {s_query, s_data} |-> IF n = s_query THEN q ELSE d]),
                   dry))) :
        q \in { <<>>, <<<<"k","=","v">>>>, <<<<"b","a","d">>>>,
                 <<<<"k","=","v">>, <<"b","a","d">>>> },
        d \in { <<>>, <<<<"x">>>> },
        dry \in BOOLEAN }

\* auth strings: a scheme prefix or none, then a short token that may hold
\* colons; given by --auth, by the API's configuration, or both
AuthStrings ==
    { pre \o tok : pre \in {<<>>, BearerPrefix, BasicPrefix},
                   tok \in SeqsUpTo({"t", ":"}, MaxTokenLen) }
ConfigAuths == { <<>>, <<"u",":","p">>, BearerPrefix \o <<"c">>, <<"k">> }

AuthInputs ==
    { Input(Endpoint(s_get, p_p, <<>>, <<>>),
            APIConfig(ca, EmptyMap),
            Argv(<<>>, WithDryRun(FlagsSet({s_auth}, [m \in {s_auth} |-> a]), dry))) :
        a \in {<<>>} \cup { <<x>> : x \in AuthStrings }, ca \in ConfigAuths,
        dry \in BOOLEAN }

Inputs == NamingInputs \cup BindingInputs \cup BodyInputs \cup ParamInputs
             \cup FlagFailureInputs \cup PipelineInputs \cup SyntaxInputs
             \cup AuthInputs

(***************************************************************************)
(* the OpenAPI parser (pkg/openapi/parser.go)                              *)
(*                                                                         *)
(* A document is the sequence of its path items; a path item holds one     *)
(* operation, or none, for each of the eight methods.                      *)
(***************************************************************************)
\* the order in which GetEndpoints looks at the methods of a path item
MethodOrder == << <<"G","E","T">>, <<"P","O","S","T">>, <<"P","U","T">>,
                  <<"D","E","L","E","T","E">>, <<"P","A","T","C","H">>,
                  <<"O","P","T","I","O","N","S">>, <<"H","E","A","D">>,
                  <<"T","R","A","C","E">> >>

\* a *v3.Parameter: Required is a *bool, Schema a *base.SchemaProxy that is
\* nil, resolves to no schema ("broken"), or resolves to a schema of the
\* given types and default
V3Param(name, in, required, proxy, types, default) ==
    [isNil |-> FALSE, Name |-> name, In |-> in, Required |-> required,
     Schema |-> proxy, Type |-> types, Default |-> default]

\* a *v3.Operation, or nil when the path item has none for the method
V3Operation(operationId, tags, deprecated, parameters, responses) ==
    [isNil |-> FALSE, OperationId |-> operationId, Tags |-> tags,
     Deprecated |-> deprecated, Parameters |-> parameters,
     Responses |-> responses]

NoOperation ==
    [isNil |-> TRUE, OperationId |-> <<>>, Tags |-> <<>>, Deprecated |-> "nil",
     Parameters |-> <<>>, Responses |-> "nil"]

\* a path item: the path and, for each method named, its operation
PathItem(path, ops) ==
    [Path |-> path,
     Ops  |-> [i \in 1..Len(MethodOrder) |->
                 IF MethodOrder[i] \in DOMAIN ops THEN ops[MethodOrder[i]]
                 ELSE NoOperation]]

\* createSchemaFromProxy and createSchema: the type list joined by commas
createSchemaFromProxy(param) ==
    IF param.Schema = "broken" THEN [err |-> TRUE, schema |-> NilSchema]
    ELSE [err |-> FALSE,
          schema |-> MakeSchema(Join(param.Type, <<",">>), param.Default)]

\* createParameter: the schema stays nil when the parameter has none
createParameter(param) ==
    LET sc == createSchemaFromProxy(param)
    IN  IF param.Schema = "nil"
        THEN [err |-> FALSE,
              parameter |-> Param(param.Name, param.In, NilSchema,
                                  param.Required = "true")]
        ELSE [err |-> sc.err,
              parameter |-> Param(param.Name, param.In, sc.schema,
                                  param.Required = "true")]

\* the parameter loop of createEndpoint: a parameter that fails to convert
\* is logged and left out
RECURSIVE createParameters(_)
createParameters(params) ==
    IF params = <<>> THEN <<>>
    ELSE LET c == createParameter(Head(params))
         IN  (IF c.err THEN <<>> ELSE <<c.parameter>>)
                \o createParameters(Tail(params))

\* createEndpoint: it returns no error; it reads operation.Responses.Codes
\* without testing operation.Responses
createEndpoint(path, method, operation) ==
    [err      |-> FALSE,
     panic    |-> operation.Responses = "nil",
     endpoint |-> [Endpoint(method, path, operation.OperationId,
                            createParameters(operation.Parameters))
                     EXCEPT !.Tags = operation.Tags,
                            !.Deprecated = (operation.Deprecated = "true")],
     logs     |-> { [msg |-> "Failed to create parameter", path |-> path,
                     method |-> method, name |-> operation.Parameters[i].Name] :
                      i \in { j \in 1..Len(operation.Parameters) :
                                createParameter(operation.Parameters[j]).err } }]

NoEndpoints == [panic |-> FALSE, endpoints |-> <<>>, logs |-> {}]

\* the body of GetEndpoints' loop for one path item, from the i-th method
\* on: an operation whose conversion fails is logged and the loop continues
\* with the next path item
RECURSIVE pathEndpoints(_, _)
pathEndpoints(item, i) ==
    IF i > Len(MethodOrder) THEN NoEndpoints
    ELSE IF item.Ops[i].isNil THEN pathEndpoints(item, i + 1)
    ELSE LET c    == createEndpoint(item.Path, MethodOrder[i], item.Ops[i])
             rest == pathEndpoints(item, i + 1)
         IN  IF c.panic THEN [NoEndpoints EXCEPT !.panic = TRUE]
             ELSE IF c.err
             THEN [NoEndpoints EXCEPT !.logs =
                      c.logs \cup { [msg |-> "Failed to create endpoint",
                                     path |-> item.Path,
                                     method |-> MethodOrder[i], name |-> <<>>] }]
             ELSE IF rest.panic THEN rest
             ELSE [panic |-> FALSE, endpoints |-> <<c.endpoint>> \o rest.endpoints,
                   logs |-> c.logs \cup rest.logs]

\* GetEndpoints on the path items of a document
RECURSIVE GetEndpoints(_)
GetEndpoints(doc) ==
    IF doc = <<>> THEN NoEndpoints
    ELSE LET first == pathEndpoints(Head(doc), 1)
             rest  == GetEndpoints(Tail(doc))
         IN  IF first.panic THEN first
             ELSE IF rest.panic THEN rest
             ELSE [panic |-> FALSE, endpoints |-> first.endpoints \o rest.endpoints,
                   logs |-> first.logs \cup rest.logs]

(***************************************************************************)
(* tree-build (cmd/dynamic.go, generateDynamicCommands)                    *)
(***************************************************************************)
s_default == <<"d","e","f","a","u","l","t">>

\* the cache TTL an API is given when its configuration names none, in
\* hours
DefaultCacheTTL == 24

\* a config.APIConfig as tree-build reads it
TreeAPIConfig(apiSpec, cacheTTL) == [APISpec |-> apiSpec, CacheTTL |-> cacheTTL]

\* Store.Clear: the memory index is remade, the cache directory removed and
\* created again
StoreClear == [mem |-> EmptyMap, dsk |-> EmptyMap]

\* no call of safeGetSpec yet
NoSafeRet ==
    [called |-> FALSE, loc |-> <<>>, panicked |-> FALSE, specNil |-> TRUE, err |-> ""]

\* generateCacheKey of cmd/dynamic.go: the spec path itself
generateCacheKey(specPath) == specPath

\* a recovery that hands its error to the caller
afterRecoverNamed == "panic in GetSpec"

\* what safeGetSpec returns as its error after the deferred function
\* recovered a panic: the function has no named results and its return
\* statement never ran, so the assignments of the deferred function to the
\* locals spec and err are lost and the caller gets the zero values
afterRecover == ""

\* safeGetSpec's return statement: what GetSpec returned, g.ok telling a
\* document from nil
getSpecReturned(g) ==
    [ok |-> g.ok, fromCache |-> g.fromCache, stored |-> g.stored, entry |-> g.entry,
     mem |-> g.mem, dsk |-> g.dsk, at |-> g.at,
     err |-> IF g.ok THEN "" ELSE "failed to load spec", panicked |-> FALSE]

\* safeGetSpec: GetSpec, or a cleared cache and no document when GetSpec
\* panics
safeGetSpec(mem, dsk, src, specPath, ttl, t, panics, written) ==
    IF panics
    THEN [ok |-> FALSE, fromCache |-> FALSE, stored |-> FALSE, entry |-> NoEntry,
          mem |-> StoreClear.mem, dsk |-> StoreClear.dsk, at |-> t,
          err |-> afterRecover, panicked |-> TRUE]
    ELSE getSpecReturned(managerGetSpec(mem, dsk, src, specPath, ttl, t, t, t, written))

\* loadOpenAPISpec after safeGetSpec returned g: on a failure the direct
\* parse, whose document l is stored under the spec path
loadAfterGetSpec(g, l, specPath, ttl, t, written) ==
    IF g.err = "" /\ g.ok
    THEN [err |-> FALSE, spec |-> g.entry.Spec, mem |-> g.mem, dsk |-> g.dsk,
          logs |-> {}, got |-> [called |-> TRUE, loc |-> specPath, panicked |-> g.panicked,
                   specNil |-> FALSE, err |-> g.err]]
    ELSE [err |-> ~l.ok,
          got |-> [called |-> TRUE, loc |-> specPath, panicked |-> g.panicked,
                   specNil |-> TRUE, err |-> g.err],
          spec |-> l.spec,
          mem |-> IF l.ok
                  THEN Put(g.mem, generateCacheKey(specPath), NewEntry(l.spec, ttl, t))
                  ELSE g.mem,
          dsk |-> IF l.ok /\ written
                  THEN Put(g.dsk, GetCachePath(generateCacheKey(specPath)),
                           NewEntry(l.spec, ttl, t))
                  ELSE g.dsk,
          logs |-> { [msg |-> "Failed to get spec from cache", path |-> specPath,
                      method |-> <<>>, name |-> <<>>] }]

\* the cache loadOpenAPISpec starts from: cleared when ONTAP_CLEAR_CACHE is
\* "true", on every call
cacheAtLoad(mem, dsk, clear) ==
    IF clear THEN StoreClear ELSE [mem |-> mem, dsk |-> dsk]

\* loadOpenAPISpec at time t, from the cache c it starts from
loadFrom(c, src, specPath, ttl, t, panics, written) ==
    loadAfterGetSpec(safeGetSpec(c.mem, c.dsk, src, specPath, ttl, t, panics, written),
                     LoadLibOpenAPISpec(src, specPath), specPath, ttl, t, written)

\* loadOpenAPISpec at time t
loadOpenAPISpec(mem, dsk, src, specPath, ttl, t, clear, panics, written) ==
    loadFrom(cacheAtLoad(mem, dsk, clear), src, specPath, ttl, t, panics, written)

\* an endpoint that gets no command
skipEndpointNever(ep) == FALSE

\* the endpoints the grouping loop skips
skipEndpoint(ep) == ep.Deprecated

\* the last tag of an endpoint
lastTag(ep) == IF Len(ep.Tags) > 0 THEN ep.Tags[Len(ep.Tags)] ELSE s_default

\* the tag an endpoint is grouped under
endpointTag(ep) == IF Len(ep.Tags) > 0 THEN ep.Tags[1] ELSE s_default

\* taggedEndpoints: the endpoints kept, by tag, in the order extracted
groupByTag(endpoints) ==
    LET kept == SelectSeq(endpoints, LAMBDA ep : ~skipEndpoint(ep))
    IN  [t \in { endpointTag(kept[i]) : i \in 1..Len(kept) } |->
           SelectSeq(kept, LAMBDA ep : endpointTag(ep) = t)]

\* an API command as added to the root command, before it has children
NoTags == [t \in {} |-> <<>>]

\* the leaves of the tag commands: one createEndpointCommand per endpoint
\* of each group
endpointCommands(groups) ==
    [tg \in DOMAIN groups |->
       [i \in 1..Len(groups[tg]) |->
          [c |-> createEndpointCommand(groups[tg][i]), endpoint |-> groups[tg][i]]]]

\* the places of a tree of leaves
Slots(built) == UNION { { <<tg, i>> : i \in 1..Len(built[tg]) } : tg \in DOMAIN built }

\* the API command's children, once every leaf is built
addCommands(ld, ex, built) ==
    [err |-> FALSE,
     panic |-> \E x \in Slots(built) : built[x[1]][x[2]].c.panic,
     tags |-> [tg \in DOMAIN built |->
                 [i \in 1..Len(built[tg]) |->
                    [cmd |-> built[tg][i].c.cmd, endpoint |-> built[tg][i].endpoint]]],
     mem |-> ld.mem, dsk |-> ld.dsk, got |-> ld.got,
     logs |-> ld.logs \cup ex.logs \cup
              { [msg |-> "Failed to add parameter flags",
                 path |-> built[x[1]][x[2]].endpoint.Path,
                 method |-> built[x[1]][x[2]].endpoint.Method,
                 name |-> <<>>] :
                  x \in { y \in Slots(built) : built[y[1]][y[2]].c.cmd.flagErr } }]

\* generateDynamicAPICommands after the extraction returned ex: group the
\* endpoints, add one tag command per group and one leaf per endpoint
commandsAfterExtraction(ld, ex) ==
    IF ex.panic
    THEN [err |-> FALSE, panic |-> TRUE, tags |-> NoTags,
          mem |-> ld.mem, dsk |-> ld.dsk, logs |-> ld.logs, got |-> ld.got]
    ELSE addCommands(ld, ex, endpointCommands(groupByTag(ex.endpoints)))

\* generateDynamicAPICommands after the load returned ld: extract the
\* endpoints of the document
commandsAfterLoad(ld, docs) ==
    IF ld.err
    THEN [err |-> TRUE, panic |-> FALSE, tags |-> NoTags,
          mem |-> ld.mem, dsk |-> ld.dsk, logs |-> ld.logs, got |-> ld.got]
    ELSE commandsAfterExtraction(ld, GetEndpoints(docs[ld.spec.loc]))

\* generateDynamicAPICommands: load the description, extract the endpoints,
\* group them, and add the tag commands and their leaves
generateDynamicAPICommands(apiCfg, docs, mem, dsk, src, t, clear, panics, written) ==
    commandsAfterLoad(
        loadOpenAPISpec(mem, dsk, src, apiCfg.APISpec,
                        IF apiCfg.CacheTTL = 0 THEN DefaultCacheTTL ELSE apiCfg.CacheTTL,
                        t, clear, panics, written),
        docs)

\* a loop that stops at the first API that fails
loopStopsOnError(failed) == IF failed THEN "done" ELSE "building"

\* the loop of generateDynamicCommands after one API: a failure is logged
\* and the loop continues
loopAfterAPI(failed) == "building"

\* generateDynamicCommands up to its loop: nothing is built when no API is
\* configured
StartBuild ==
    /\ treePc = "idle"
    /\ treePc' = IF DOMAIN config = {} THEN "done" ELSE "building"
    /\ UNCHANGED <<config, documents, rootCmd, logs, trees, clearEnv, safeRet>>
    /\ UNCHANGED execVars
    /\ UNCHANGED cacheVars

\* one iteration of the loop over cfg.APIs, whose order Go leaves open: the
\* API command is added to the root command, then given its children
BuildAPI(name, panics, written) ==
    /\ treePc = "building"
    /\ name \in DOMAIN config \ DOMAIN rootCmd
    /\ \E r \in { generateDynamicAPICommands(config[name], documents, memoryCache,
                                             disk, source, now, clearEnv, panics,
                                             written) } :
           /\ rootCmd' = Put(rootCmd, name, r.tags)
           /\ safeRet' = r.got
           /\ memoryCache' = r.mem
           /\ disk' = r.dsk
           /\ logs' = logs \cup r.logs \cup
                        (IF r.err
                         THEN { [msg |-> "Failed to generate commands for API",
                                 path |-> <<>>, method |-> <<>>, name |-> name] }
                         ELSE {})
           /\ treePc' = IF r.panic THEN "panic" ELSE loopAfterAPI(r.err)
    /\ UNCHANGED <<config, documents, trees, clearEnv>>
    /\ UNCHANGED <<now, source, ret, calls>>
    /\ UNCHANGED execVars

\* the loop has visited every configured API
FinishBuild ==
    /\ treePc = "building"
    /\ DOMAIN rootCmd = DOMAIN config
    /\ treePc' = "done"
    /\ UNCHANGED <<config, documents, rootCmd, logs, trees, clearEnv, safeRet>>
    /\ UNCHANGED execVars
    /\ UNCHANGED cacheVars

\* the program is run again after a run that built its tree: the tree of
\* the finished run is kept for comparison; the new process starts with an
\* empty root command and an empty memory index over the same cache
\* directory, configuration and environment
Rebuild ==
    /\ treePc = "done"
    /\ Len(trees) < MaxRuns - 1
    /\ trees' = Append(trees, rootCmd)
    /\ rootCmd' = EmptyMap
    /\ memoryCache' = EmptyMap
    /\ logs' = {}
    /\ safeRet' = NoSafeRet
    /\ treePc' = "idle"
    /\ UNCHANGED <<config, documents, clearEnv>>
    /\ UNCHANGED <<now, source, disk, ret, calls>>
    /\ UNCHANGED execVars

(***************************************************************************)
(* the configurations and descriptions tree-build is explored on           *)
(***************************************************************************)
n_a     == <<"a">>
n_b     == <<"b">>
l_a     == <<"a","/","s">>
l_b     == <<"b","/","s">>
p_q     == <<"/","q">>
t_users == <<"u","s","e","r","s">>
t_admin == <<"a","d","m","i","n">>

TreeLocations == { l_a, l_b }

TreeInput(cfg, docs, src) ==
    [config |-> cfg, documents |-> docs, source |-> src, clearEnv |-> FALSE]

\* the same input with ONTAP_CLEAR_CACHE set to "true"
WithClearCache(in) == [in EXCEPT !.clearEnv = TRUE]

\* a function given by its pairs
Pairs(S) == [k \in { x[1] : x \in S } |-> (CHOOSE x \in S : x[1] = k)[2]]

\* operations of every tagging, deprecated or not, without parameters
TaggedOps ==
    { V3Operation(<<>>, tags, dep, <<>>, "ok") :
        tags \in { <<>>, <<t_users>>, <<t_users, t_admin>>, <<t_admin, t_users>> },
        dep \in { "nil", "true", "false" } }

\* one API whose description has one path with a GET and a POST operation
GroupingInputs ==
    { TreeInput(Pairs({ <<n_a, TreeAPIConfig(l_a, 0)>> }),
                Pairs({ <<l_a, << PathItem(p_p, Pairs({ <<s_get, g>>, <<s_post, o>> })) >> >>,
                        <<l_b, <<>> >> }),
                Pairs({ <<l_a, 1>>, <<l_b, 0>> })) :
        g \in TaggedOps, o \in TaggedOps }

\* two APIs, each with a description of its own that is reachable or not
IsolationInputs ==
    { TreeInput(Pairs({ <<n_a, TreeAPIConfig(l_a, ttl)>>, <<n_b, TreeAPIConfig(l_b, 0)>> }),
                Pairs({ <<l_a, << PathItem(p_p, Pairs({
                                     <<s_get, V3Operation(<<>>, <<t_users>>, "nil", <<>>, "ok")>>,
                                     <<s_post, V3Operation(<<>>, <<>>, "false", <<>>, "ok")>> })) >> >>,
                        <<l_b, << PathItem(p_q, Pairs({
                                     <<s_get, V3Operation(<<>>, <<t_admin>>, "nil", <<>>, "ok")>> })) >> >> }),
                Pairs({ <<l_a, va>>, <<l_b, vb>> })) :
        ttl \in 0..MaxTTL, va \in {0, 1}, vb \in {0, 1} }

\* operations as descriptions declare them: plain, without responses, with
\* a parameter whose schema does not resolve, with a parameter without
\* schema
DeclaredOps ==
    { V3Operation(<<>>, <<>>, "nil", <<>>, "ok"),
      V3Operation(<<>>, <<>>, "nil", <<>>, "nil"),
      V3Operation(<<>>, <<>>, "nil",
                  << V3Param(<<"q">>, "query", "nil", "broken", <<>>, NoDefault) >>, "ok"),
      V3Operation(<<>>, <<>>, "nil",
                  << V3Param(<<"q">>, "query", "nil", "nil", <<>>, NoDefault) >>, "ok") }

\* one API whose description has two paths, the first with up to two
\* operations
ExtractionInputs ==
    { TreeInput(Pairs({ <<n_a, TreeAPIConfig(l_a, 0)>> }),
                Pairs({ <<l_a, << PathItem(p_p, Pairs({ <<s_get, g>>, <<s_post, o>> })),
                                  PathItem(p_q, Pairs({ <<s_get, q>> })) >> >>,
                        <<l_b, <<>> >> }),
                Pairs({ <<l_a, 1>>, <<l_b, 0>> })) :
        g \in DeclaredOps \cup {NoOperation}, o \in DeclaredOps \cup {NoOperation},
        q \in DeclaredOps }

\* the two APIs again, with the cache to be cleared
ClearCacheInputs == { WithClearCache(in) : in \in IsolationInputs }

TreeInputs ==
    GroupingInputs \cup IsolationInputs \cup ExtractionInputs \cup ClearCacheInputs

(***************************************************************************)
(* the refresh command (cmd/refresh.go) and RefreshSpec                    *)
(***************************************************************************)
\* a refresh that leaves the cached entry where it is
refreshKeepsEntry(mem, dsk, key) == [mem |-> mem, dsk |-> dsk]

\* RefreshSpec's first step: the cached entry is deleted
refreshDeleted(mem, dsk, key) == StoreDelete(mem, dsk, key)

\* RefreshSpec after the delete left the store d: the load from the source
\* l, and on success the Set at time t
refreshAfterDelete(d, l, key, ttl, t, written) ==
    IF ~l.ok
    THEN [ok |-> FALSE, entry |-> NoEntry, mem |-> d.mem, dsk |-> d.dsk]
    ELSE [ok |-> TRUE, entry |-> NewEntry(l.spec, ttl, t),
          mem |-> StoreSet(d.mem, d.dsk, key, l.spec, ttl, t, written).mem,
          dsk |-> StoreSet(d.mem, d.dsk, key, l.spec, ttl, t, written).dsk]

\* a refresh that answers from the cache when it can
managerRefreshSpecCached(mem, dsk, src, specPath, ttl, t, written) ==
    [ok |-> managerGetSpec(mem, dsk, src, specPath, ttl, t, t, t, written).ok,
     entry |-> managerGetSpec(mem, dsk, src, specPath, ttl, t, t, t, written).entry,
     mem |-> managerGetSpec(mem, dsk, src, specPath, ttl, t, t, t, written).mem,
     dsk |-> managerGetSpec(mem, dsk, src, specPath, ttl, t, t, t, written).dsk]

\* LibOpenAPICacheManager.RefreshSpec, its Set reading the clock at t
managerRefreshSpec(mem, dsk, src, specPath, ttl, t, written) ==
    refreshAfterDelete(refreshDeleted(mem, dsk, managerCacheKey(specPath)),
                       LoadLibOpenAPISpec(src, specPath),
                       managerCacheKey(specPath), ttl, t, written)

\* refreshAPISpec for an API whose configured TTL is cacheTTL: the TTL
\* defaults to 24h, then RefreshSpec; the load takes d
RefreshAPISpec(specPath, cacheTTL, d, written) ==
    /\ now + d <= MaxClock
    /\ \E r \in { managerRefreshSpec(memoryCache, disk, source, specPath,
                                      IF cacheTTL = 0 THEN DefaultCacheTTL ELSE cacheTTL,
                                      now + d, written) } :
          /\ memoryCache' = r.mem
          /\ disk' = r.dsk
          /\ ret' = [NoRet EXCEPT !.op = "RefreshSpec", !.loc = specPath,
                                  !.ok = r.ok, !.entry = r.entry, !.ttl = cacheTTL,
                                  !.hadFresh =
                                      /\ Visible(memoryCache, disk,
                                                 managerCacheKey(specPath)).present
                                      /\ ~IsExpired(Visible(memoryCache, disk,
                                                   managerCacheKey(specPath)).entry, now)]
    /\ now' = now + d
    /\ UNCHANGED <<source, calls>>
    /\ UNCHANGED execVars
    /\ UNCHANGED treeVars

(***************************************************************************)
(* specifications                                                          *)
(***************************************************************************)
ExecIdle ==
    /\ pc = "start"
    /\ cmd = NoCmd
    /\ flagValues = NoFlagValues
    /\ frame = NoFrame
    /\ req = NoReq
    /\ httpReq = NoHTTPReq
    /\ sent = 0
    /\ resp = NoResp
    /\ stdout = <<>>
    /\ output = NoOutput
    /\ err = ""

TreeIdle ==
    /\ config = EmptyMap
    /\ documents = EmptyMap
    /\ rootCmd = EmptyMap
    /\ treePc = "idle"
    /\ logs = {}
    /\ trees = <<>>
    /\ clearEnv = FALSE
    /\ safeRet = NoSafeRet

CacheIdle ==
    /\ now = 0
    /\ memoryCache = EmptyMap
    /\ disk = EmptyMap
    /\ ret = NoRet
    /\ calls = [g \in Goroutines |-> Idle(0)]

\* one invocation of a dynamic command: tree-build, dispatch, request, output
Init ==
    /\ \E in \in Inputs :
          /\ endpoint = in.endpoint
          /\ apiConfig = in.apiConfig
          /\ argv = in.argv
    /\ ExecIdle
    /\ CacheIdle
    /\ TreeIdle
    /\ source = [l \in Locations |-> 1]

Next ==
    \/ CreateEndpointCommand
    \/ Dispatch
    \/ ExecuteEndpoint
    \/ ClientExecute
    \/ TransportDo
    \/ DryRunCompleted
    \/ ProcessResponse

Spec == Init /\ [][Next]_vars

\* tree-build on a first run: nothing is cached yet
InitTree ==
    /\ \E in \in TreeInputs :
          /\ config = in.config
          /\ documents = in.documents
          /\ source = in.source
          /\ clearEnv = in.clearEnv
    /\ rootCmd = EmptyMap
    /\ treePc = "idle"
    /\ logs = {}
    /\ trees = <<>>
    /\ safeRet = NoSafeRet
    /\ endpoint = Endpoint(s_get, p_p, <<>>, <<>>)
    /\ apiConfig = NoConfig
    /\ argv = Argv(<<>>, EmptyMap)
    /\ ExecIdle
    /\ CacheIdle

NextTree ==
    \/ StartBuild
    \/ \E name \in DOMAIN config, panics \in BOOLEAN, written \in BOOLEAN :
          BuildAPI(name, panics, written)
    \/ FinishBuild
    \/ Rebuild

SpecTree == InitTree /\ [][NextTree]_vars

\* the cache manager used by successive invocations, one call at a time
InitCache ==
    /\ endpoint = Endpoint(s_get, p_p, <<>>, <<>>)
    /\ apiConfig = NoConfig
    /\ argv = Argv(<<>>, EmptyMap)
    /\ ExecIdle
    /\ CacheIdle
    /\ TreeIdle
    /\ source \in [Locations -> 0..1]

NextCache ==
    \/ \E specPath \in Locations, ttl \in 0..MaxTTL, d1 \in 0..1, d2 \in 0..1,
          written \in BOOLEAN : GetSpec(specPath, ttl, d1, d2, written)
    \/ \E specPath \in Locations, version \in Versions, ttl \in 0..MaxTTL,
          written \in BOOLEAN :
             CallSet(managerCacheKey(specPath), version, ttl, written)
    \/ \E specPath \in Locations : CallGet(managerCacheKey(specPath))
    \/ \E specPath \in Locations : CallDelete(managerCacheKey(specPath))
    \/ Tick
    \/ \E specPath \in Locations : SourceChange(specPath)
    \/ Restart
    \/ \E specPath \in Locations, cacheTTL \in 0..MaxTTL, d \in 0..1,
          written \in BOOLEAN : RefreshAPISpec(specPath, cacheTTL, d, written)

SpecCache == InitCache /\ [][NextCache]_vars

\* the store called by concurrent goroutines
InitStore ==
    /\ endpoint = Endpoint(s_get, p_p, <<>>, <<>>)
    /\ apiConfig = NoConfig
    /\ argv = Argv(<<>>, EmptyMap)
    /\ ExecIdle
    /\ CacheIdle
    /\ TreeIdle
    /\ source = [l \in Locations |-> 1]

NextStore ==
    \/ \E g \in Goroutines :
          \/ BeginSet(g)
          \/ SetMemory(g)
          \/ SetFile(g)
          \/ BeginDelete(g)
          \/ DeleteMemory(g)
          \/ DeleteFile(g)
          \/ BeginGet(g)
          \/ GetMemory(g)
          \/ GetFile(g)
          \/ GetFill(g)
    \/ Tick

SpecStore == InitStore /\ [][NextStore]_vars

(***************************************************************************)
(* properties of one invocation                                            *)
(***************************************************************************)
\* the map holds v under k
Has(h, k, v) == k \in DOMAIN h /\ h[k] = v

\* the flag of the command line, when given
Given(name) == name \in DOMAIN argv.set
LastGiven(name) == argv.set[name][Len(argv.set[name])]

Built == cmd # NoCmd
RequestBuilt == req # NoReq
Assembled == httpReq # NoHTTPReq

\* the name the documentation gives an endpoint
DocumentedName(ep) ==
    IF ep.OperationID = <<>>
    THEN ToLower(ep.Method) \o <<"-">>
           \o TrimPrefix(ReplaceAll(ep.Path, <<"/">>, <<"-">>), <<"-">>)
    ELSE ep.OperationID

\* C1: the command name of an endpoint without operation id is the lowercased
\* method, a hyphen, and the path with "/" replaced by "-" and its leading
\* hyphen stripped (GET /pets/{id} is get-pets-{id}); with an operation id the
\* name is the operation id
C1_CommandName == Built => CommandName(cmd.Use) = DocumentedName(endpoint)

\* the i-th argument fills the i-th path parameter, by name
RECURSIVE DocumentedPath(_, _, _, _)
DocumentedPath(path, names, args, i) ==
    IF i > Len(names) \/ i > Len(args) THEN path
    ELSE DocumentedPath(ReplaceAll(path, <<"{">> \o names[i] \o <<"}">>, args[i]),
                        names, args, i + 1)

\* C2: the i-th positional argument fills the i-th path parameter, counting
\* path parameters only, and every {name} of the template is replaced by the
\* value bound to the path parameter of that name, whatever other parameters
\* are declared before or between the path parameters
C2_PositionalBinding ==
    RequestBuilt =>
        req.Path = DocumentedPath(endpoint.Path, PathParamNames(endpoint.Parameters),
                                  argv.args, 1)

\* C3: the body is multipart form data when --form is given (also when --data
\* is given too), the JSON parsed from --data when only --data is given, and
\* absent when neither is given
C3_BodyMode ==
    Assembled =>
        IF Given(s_form) THEN httpReq.Body.mode = "multipart"
        ELSE IF Given(s_data)
        THEN LET data == ParseDataFlag(LastGiven(s_data))
             IN  \/ /\ httpReq.Body.mode = "json"
                    /\ httpReq.Body.json = JSONMarshal(data.value)
                 \/ /\ data.value.isNil
                    /\ httpReq.Body.mode = "none"
        ELSE httpReq.Body.mode = "none"

\* the header levels of the documentation, lowest first
DocumentedHeaders ==
    LET flagHeaders == IF Given(s_header) THEN ParseHeaderFlags(argv.set[s_header]).m
                       ELSE EmptyMap
        explicit == IF Given(s_content_type)
                    THEN [k \in {h_Content_Type} |-> LastGiven(s_content_type)]
                    ELSE EmptyMap
        levels == <<ClientHeaders, apiConfig.Headers, flagHeaders, explicit>>
        top(k) == CHOOSE i \in 1..4 :
                     /\ k \in DOMAIN levels[i]
                     /\ \A j \in (i + 1)..4 : k \notin DOMAIN levels[j]
    IN  [k \in UNION {DOMAIN levels[i] : i \in 1..4} |-> levels[top(k)][k]]

\* C4: a header set at several levels is sent with the value of the highest
\* level in the order client defaults, API-configuration headers, --header
\* flags, --content-type flag; the configuration's headers are on every
\* request, and an explicit --content-type is the Content-Type sent even with
\* a body attached
C4_HeaderPrecedence ==
    Assembled =>
        \A k \in DOMAIN DocumentedHeaders :
            (k = h_Content_Type => Given(s_content_type))
                => Has(httpReq.Header, k, DocumentedHeaders[k])

\* the declared parameters whose generated flag was given a value
GivenParams ==
    { i \in 1..Len(endpoint.Parameters) :
        /\ Given(endpoint.Parameters[i].Name)
        /\ endpoint.Parameters[i].Name \in DOMAIN flagValues
        /\ flagValues[endpoint.Parameters[i].Name].origin = "param" }

\* C5: every declared query or header parameter whose generated flag was
\* given a value is carried into the request at its declared location,
\* whatever the kind of the flag
C5_DeclaredParamsCarried ==
    Assembled =>
        \A i \in GivenParams :
            LET param == endpoint.Parameters[i]
            IN  /\ param.In = "query" =>
                      /\ param.Name \in DOMAIN httpReq.Query
                      /\ \A j \in 1..Len(argv.set[param.Name]) :
                            \E n \in 1..Len(httpReq.Query[param.Name]) :
                               httpReq.Query[param.Name][n] = argv.set[param.Name][j]
                /\ param.In = "header" =>
                      Has(httpReq.Header, param.Name, LastGiven(param.Name))

ReservedNames == DOMAIN RequestFlags \cup
                 {s_output, s_save, s_extract, s_filter, s_verbose, s_dry_run}

\* C6: a parameter named like a reserved flag (data, header, query, form,
\* auth, content-type, output, save, extract, filter, verbose, dry-run) gets
\* no flag of its own: on the built command the reserved flag is the one the
\* name resolves to
C6_ReservedFlagsKept ==
    Built =>
        \A n \in ReservedNames :
            /\ n \in DOMAIN MergedFlags(cmd.flags)
            /\ MergedFlags(cmd.flags)[n].origin # "param"

\* the auth string in force: --auth when given and not empty, else the
\* configuration's
AuthInForce ==
    IF Given(s_auth) /\ LastGiven(s_auth) # <<>> THEN LastGiven(s_auth)
    ELSE apiConfig.Auth

\* C7: an auth string starting with "Bearer " or "Basic " is the
\* Authorization header verbatim, also when its token holds a colon; one
\* holding ":" without such a prefix is sent as basic auth user:password; a
\* non-empty --auth replaces the configuration's auth string
C7_AuthInterpretation ==
    Assembled =>
        LET auth == AuthInForce
        IN  IF HasPrefix(auth, BearerPrefix) \/ HasPrefix(auth, BasicPrefix)
            THEN Has(httpReq.Header, h_Authorization, auth)
            ELSE Contains(auth, <<":">>) =>
                    Has(httpReq.Header, h_Authorization,
                             BasicAuthValue(SplitN2(auth, <<":">>)[1],
                                            SplitN2(auth, <<":">>)[2]))

\* the invocation runs dry: the command line says --dry-run, or the handler
\* read the flag as true
DryRun ==
    \/ Given(s_dry_run) /\ LastGiven(s_dry_run) = s_true
    \/ frame.dryRun

\* C8: with --dry-run the transport's send step is never reached, no
\* response is received, processed or written, and a command that completes
\* reports the completion of the dry run and nothing else
C8_DryRunPurity ==
    DryRun =>
        /\ pc # "transport"
        /\ sent = 0
        /\ resp = NoResp
        /\ \A i \in 1..Len(stdout) : stdout[i] = "dry run completed"
        /\ (pc = "done" /\ err = "") => stdout = <<"dry run completed">>

C8_Witness ==
    /\ pc = "done"
    /\ err = ""
    /\ Given(s_dry_run)
    /\ frame.dryRun
    /\ Assembled
    /\ sent = 0
    /\ stdout = <<"dry run completed">>

(***************************************************************************)
(* properties of the spec cache                                            *)
(***************************************************************************)
\* what the call that just returned leaves when it found an expired entry:
\* with the source available, the document the source serves now, in an entry
\* created at the time of the return and living one of the time-to-lives, in
\* the memory index and in the file if there is one; without the source, an
\* error and no entry
Refreshed(key, src, t, r, mem, dsk) ==
    IF src[r.loc] = 0
    THEN /\ ~r.ok
         /\ key \notin DOMAIN mem
         /\ GetCachePath(key) \notin DOMAIN dsk
    ELSE /\ r.ok /\ ~r.fromCache
         /\ r.entry.Spec = LoadLibOpenAPISpec(src, r.loc).spec
         /\ r.entry.CreatedAt = t
         /\ \E ttl \in 0..MaxTTL : r.entry.ExpiresAt = t + ttl
         /\ Has(mem, key, r.entry)
         /\ GetCachePath(key) \in DOMAIN dsk => dsk[GetCachePath(key)] = r.entry

Quiescent == \A g \in Goroutines : calls[g].op = "idle"

\* two entries written by the same Set
SameSet(e1, e2) ==
    /\ e1.Spec.version = e2.Spec.version
    /\ e1.CreatedAt = e2.CreatedAt
    /\ e1.ExpiresAt = e2.ExpiresAt

\* C10: once every concurrent Get, Set and Delete on the key has completed,
\* the memory index and the cache file agree: both hold the entry of the same
\* Set, or both are absent
C10_MemoryAndDiskAgree ==
    Quiescent =>
        IF theKey \in DOMAIN memoryCache
        THEN /\ GetCachePath(theKey) \in DOMAIN disk
             /\ SameSet(memoryCache[theKey], disk[GetCachePath(theKey)])
        ELSE GetCachePath(theKey) \notin DOMAIN disk

(***************************************************************************)
(* the command tree                                                        *)
(***************************************************************************)
\* the operations a document declares: path item and method, by position
Declared(doc) ==
    { x \in (1..Len(doc)) \X (1..Len(MethodOrder)) : ~doc[x[1]].Ops[x[2]].isNil }

\* the document at the location an API is configured with
DocumentOf(name) == documents[config[name].APISpec]

\* the API's description can be loaded
Loadable(name) == source[config[name].APISpec] # 0

\* the leaves of an API command that were built for a path and method
LeavesFor(name, path, method) ==
    { x \in Slots(rootCmd[name]) :
        /\ rootCmd[name][x[1]][x[2]].endpoint.Path = path
        /\ rootCmd[name][x[1]][x[2]].endpoint.Method = method }

\* C11: once tree-build has visited an API whose description loads, an
\* operation the description marks deprecated has no leaf under the API
\* command, whatever its tags and method, and every other operation of the
\* description has exactly one leaf
C11_DeprecatedFiltered ==
    \A name \in DOMAIN rootCmd :
        Loadable(name) =>
            \A x \in Declared(DocumentOf(name)) :
                Cardinality(LeavesFor(name, DocumentOf(name)[x[1]].Path, MethodOrder[x[2]]))
                    = IF DocumentOf(name)[x[1]].Ops[x[2]].Deprecated = "true" THEN 0 ELSE 1

\* C12: every leaf of an API command sits under the tag command named by
\* the first tag of its operation, or under "default" when the operation
\* has no tag, and no operation has a leaf under two tag commands
C12_FirstTagOnly ==
    \A name \in DOMAIN rootCmd :
        \A x \in Slots(rootCmd[name]) :
            LET leaf == rootCmd[name][x[1]][x[2]].endpoint
            IN  \E d \in Declared(DocumentOf(name)) :
                  LET item == DocumentOf(name)[d[1]]
                  IN  /\ item.Path = leaf.Path
                      /\ MethodOrder[d[2]] = leaf.Method
                      /\ x[1] = IF item.Ops[d[2]].Tags = <<>> THEN s_default
                                ELSE item.Ops[d[2]].Tags[1]
                      /\ LeavesFor(name, leaf.Path, leaf.Method) = {x}

\* a finished tree with a leaf under "default" and a leaf whose operation
\* has two tags
C12_Witness ==
    /\ treePc = "done"
    /\ \E name \in DOMAIN rootCmd :
          /\ s_default \in DOMAIN rootCmd[name]
          /\ \E x \in Slots(rootCmd[name]) :
                Len(rootCmd[name][x[1]][x[2]].endpoint.Tags) = 2

\* the API command has every command of its description: one leaf for each
\* operation that is not deprecated, and no other
FullSet(name) ==
    /\ \A x \in Declared(DocumentOf(name)) :
          Cardinality(LeavesFor(name, DocumentOf(name)[x[1]].Path, MethodOrder[x[2]]))
              = IF DocumentOf(name)[x[1]].Ops[x[2]].Deprecated = "true" THEN 0 ELSE 1
    /\ \A x \in Slots(rootCmd[name]) :
          \E d \in Declared(DocumentOf(name)) :
             /\ DocumentOf(name)[d[1]].Path = rootCmd[name][x[1]][x[2]].endpoint.Path
             /\ MethodOrder[d[2]] = rootCmd[name][x[1]][x[2]].endpoint.Method

\* the failure of an API was logged
FailureLogged(name) ==
    [msg |-> "Failed to generate commands for API", path |-> <<>>,
     method |-> <<>>, name |-> name] \in logs

\* C17: when tree-build has finished, an API whose description could not be
\* loaded, from the cache or directly, was logged and has no commands, and
\* every other configured API has its full set of commands, in whatever
\* order the APIs were visited
C17_LoadFailureIsolated ==
    treePc = "done" =>
        \A name \in DOMAIN config :
            /\ name \in DOMAIN rootCmd
            /\ IF Loadable(name)
               THEN FullSet(name) /\ ~FailureLogged(name)
               ELSE Slots(rootCmd[name]) = {} /\ FailureLogged(name)

\* a finished tree of two APIs, one that failed to load and one with leaves
C17_Witness ==
    /\ treePc = "done"
    /\ \E a \in DOMAIN config, b \in DOMAIN config :
          /\ ~Loadable(a) /\ FailureLogged(a)
          /\ Loadable(b) /\ Slots(rootCmd[b]) # {}

\* the endpoints an extraction returned for a path and method
ExtractedFor(ex, path, method) ==
    { i \in 1..Len(ex.endpoints) :
        ex.endpoints[i].Path = path /\ ex.endpoints[i].Method = method }

\* the extraction logged that it skipped the operation
SkipLogged(ex, path, method) ==
    \E l \in ex.logs :
        l.msg = "Failed to create endpoint" /\ l.path = path /\ l.method = method

\* C18: the extraction tree-build ran on the description of an API returns;
\* each operation the description declares, on each path and for each of
\* the eight methods, has exactly one endpoint in what it returned or was
\* skipped with a logged reason, whatever the other operations are
C18_ExtractionTotal ==
    \A name \in DOMAIN rootCmd :
        Loadable(name) =>
            /\ ~GetEndpoints(DocumentOf(name)).panic
            /\ \A x \in Declared(DocumentOf(name)) :
                  \/ Cardinality(ExtractedFor(GetEndpoints(DocumentOf(name)),
                                              DocumentOf(name)[x[1]].Path,
                                              MethodOrder[x[2]])) = 1
                  \/ SkipLogged(GetEndpoints(DocumentOf(name)),
                                DocumentOf(name)[x[1]].Path, MethodOrder[x[2]])

(***************************************************************************)
(* parameter flags                                                         *)
(***************************************************************************)
\* the flag kind the documentation gives a schema type
DocumentedKind(schema) ==
    CASE schema.Type = s_string                -> "string"
      [] schema.Type \in {s_integer, s_number} -> "int"
      [] schema.Type = s_boolean               -> "bool"
      [] schema.Type = s_array                 -> "stringArray"
      [] OTHER                                 -> "string"

\* the default the documentation gives the flag: the schema's default
\* when it has one, else the zero value of the kind
DocumentedDefault(schema) ==
    CASE DocumentedKind(schema) = "stringArray" -> <<>>
      [] schema.Default.t \in {"float64", "string", "bool"} -> <<FormatV(schema.Default)>>
      [] DocumentedKind(schema) = "int"         -> <<<<"0">>>>
      [] DocumentedKind(schema) = "bool"        -> <<s_false>>
      [] OTHER                                  -> <<<<>>>>

\* the declared parameters whose name no flag of the program has
OwnNamed == { i \in 1..Len(endpoint.Parameters) :
                endpoint.Parameters[i].Name \notin ReservedNames }

\* C13: the built command has, for every query, header or cookie parameter
\* with a schema, one flag whose kind follows the schema type and whose
\* default is the schema's default when present and the zero value
\* otherwise, and it has no flag for a path parameter
C13_FlagKindFollowsSchema ==
    Built =>
        \A i \in OwnNamed :
            LET param == endpoint.Parameters[i]
            IN  IF param.In = "path" THEN param.Name \notin DOMAIN cmd.flags
                ELSE ~param.Schema.isNil =>
                        /\ param.Name \in DOMAIN cmd.flags
                        /\ cmd.flags[param.Name].kind = DocumentedKind(param.Schema)
                        /\ cmd.flags[param.Name].def = DocumentedDefault(param.Schema)

\* the declared parameters that are not path parameters
NonPath == { i \in 1..Len(endpoint.Parameters) : endpoint.Parameters[i].In # "path" }

\* a required parameter of the endpoint was left out of the command line
RequiredLeftOut ==
    \E i \in NonPath :
        endpoint.Parameters[i].Required /\ ~Given(endpoint.Parameters[i].Name)

\* C14: when the command line leaves out a required query, header or cookie
\* parameter, the program does not panic and sends no HTTP request, and the
\* command ends with the error that a required flag is not set
C14_RequiredEnforced ==
    RequiredLeftOut =>
        /\ pc # "panic"
        /\ sent = 0
        /\ pc \in {"start", "built", "done"}
        /\ pc = "done" => err = "required flag(s) not set"

\* C15: a query, header or cookie parameter without schema does not make
\* tree-build panic or fail: the command is built, with a string flag of
\* empty default for the parameter
C15_NoSchemaTolerated ==
    \A i \in NonPath :
        endpoint.Parameters[i].Schema.isNil =>
            /\ pc # "panic"
            /\ pc # "start" =>
                  /\ Built
                  /\ endpoint.Parameters[i].Name \in DOMAIN cmd.flags
                  /\ endpoint.Parameters[i].Name \notin ReservedNames =>
                        /\ cmd.flags[endpoint.Parameters[i].Name].kind = "string"
                        /\ cmd.flags[endpoint.Parameters[i].Name].def = <<<<>>>>

\* C16: the command is built whatever flags fail to register, and every
\* declared parameter of a supported location has a flag on it, also when
\* an earlier parameter's name was taken or its location unsupported
C16_FlagFailureSkipsOneFlag ==
    pc \notin {"start", "panic"} =>
        /\ Built
        /\ \A i \in NonPath :
              endpoint.Parameters[i].In \in {"query", "header", "cookie"} =>
                  endpoint.Parameters[i].Name \in DOMAIN cmd.flags

(***************************************************************************)
(* the request on the wire                                                 *)
(***************************************************************************)
\* C19: an invocation calls the transport at most once: nothing has been
\* sent while the request waits for the transport, exactly one request has
\* been sent once a response is held, and when the transport failed the
\* command has ended with that error after its one send
C19_SingleSend ==
    /\ sent <= 1
    /\ pc = "transport" => sent = 0
    /\ resp # NoResp => sent = 1
    /\ (pc = "returned" /\ ~frame.dryRun) => sent = 1
    /\ (err = "failed to execute request" /\ sent > 0) => (pc = "done" /\ sent = 1)

\* the transport failed on the one request sent and the command has ended
\* with the error
C19_Witness ==
    /\ pc = "done"
    /\ sent = 1
    /\ err = "failed to execute request"
    /\ resp = NoResp

(***************************************************************************)
(* the response pipeline                                                   *)
(***************************************************************************)
\* the command went through the response pipeline
Processed == pc = "done" /\ sent = 1 /\ resp # NoResp

\* the response data after --extract
Extracted == ExtractFields(decodeResponse(resp.Body), frame.extractFields)

\* --filter names a path the data does not have
FilterUnresolved == frame.filter # <<>> /\ ~FilterData(Extracted, frame.filter).ok

\* C20: when --filter names a path that does not resolve, the command ends
\* with an error and writes no output in place of the response; a field of
\* --extract that does not resolve is left out of what is written, without
\* an error
C20_FilterErrorPropagated ==
    Processed =>
        IF FilterUnresolved THEN err # "" /\ ~output.written
        ELSE NewFormatter(frame.outputFormat) =>
                /\ err = ""
                /\ output.written
                /\ output.data = FilterData(Extracted, frame.filter).value

\* the values a dot-path reaches in a value: descending by key through
\* objects, or the whole array at the token [] against an array; none when
\* a step meets any other shape
RECURSIVE Reached(_, _)
Reached(value, parts) ==
    IF parts = <<>> THEN {value}
    ELSE CASE value.kind = "object" ->
                UNION { Reached(value.m[k], Tail(parts)) :
                          k \in { x \in DOMAIN value.m : x = Head(parts) } }
           [] value.kind = "array" ->
                IF Head(parts) = <<"[","]">> THEN {value} ELSE {}
           [] OTHER -> {}

\* the fields of --extract whose path resolves in the response
ResolvedFields ==
    { f \in { frame.extractFields[i] : i \in 1..Len(frame.extractFields) } :
        Reached(decodeResponse(resp.Body), Split(f, <<".">>)) # {} }

\* the command wrote the result of --extract as it is
ExtractWritten ==
    /\ Processed
    /\ frame.extractFields # <<>>
    /\ frame.filter = <<>>
    /\ NewFormatter(frame.outputFormat)

\* C21: what the command writes for a list of extraction fields is a
\* mapping that holds exactly the fields whose dot-path resolves in the
\* response, each with the value the path reaches, and the command returns
\* no error when a field does not resolve
C21_ExtractionPartial ==
    ExtractWritten =>
        /\ err = ""
        /\ output.written
        /\ output.data.kind = "object"
        /\ DOMAIN output.data.m = ResolvedFields
        /\ \A f \in ResolvedFields :
              output.data.m[f] \in Reached(decodeResponse(resp.Body), Split(f, <<".">>))

\* items.name against {"items":[{"name":"a"}]} gave the empty mapping
C21_Witness ==
    /\ ExtractWritten
    /\ resp.Body = b_items
    /\ frame.extractFields = << s_items \o <<".">> \o s_name >>
    /\ output.data = JObject(EmptyMap)

(***************************************************************************)
(* errors of one invocation                                                *)
(***************************************************************************)
\* some value given to the flag lacks the separator
LacksSeparator(name, sep) ==
    /\ Given(name)
    /\ \E i \in 1..Len(argv.set[name]) : ~Contains(argv.set[name][i], sep)

\* the value given to --data is neither JSON nor a readable file of JSON
BadData ==
    /\ Given(s_data)
    /\ LET value == LastGiven(s_data)
       IN  IF HasPrefix(value, <<"@">>)
           THEN \/ Tail(value) \notin DOMAIN Files
                \/ ~JSONUnmarshal(Files[Tail(value)]).ok
           ELSE ~JSONUnmarshal(value).ok

\* the command line has invalid --data, --header, --query or --form syntax
InvalidSyntax ==
    \/ BadData
    \/ LacksSeparator(s_header, <<":">>)
    \/ LacksSeparator(s_query, <<"=">>)
    \/ LacksSeparator(s_form, <<"=">>)

LeafSet(leaves) == { leaves[i] : i \in 1..Len(leaves) }

\* two API commands with the same tag commands and, under each, the same
\* leaves: name, usage, flags with their kinds, defaults and required marks
SameAPI(a, b) ==
    /\ DOMAIN a = DOMAIN b
    /\ \A tg \in DOMAIN a :
          /\ Len(a[tg]) = Len(b[tg])
          /\ LeafSet(a[tg]) = LeafSet(b[tg])

\* two trees that are structurally identical
SameTree(t1, t2) ==
    /\ DOMAIN t1 = DOMAIN t2
    /\ \A name \in DOMAIN t1 : SameAPI(t1[name], t2[name])

EffectiveTTL(cacheTTL) == IF cacheTTL = 0 THEN DefaultCacheTTL ELSE cacheTTL

Cached(loc) ==
    \/ managerCacheKey(loc) \in DOMAIN memoryCache
    \/ generateCacheKey(loc) \in DOMAIN memoryCache

\* GetSpec failed or panicked for some API of this run
FallbackLogged ==
    \E l \in logs : l.msg = "Failed to get spec from cache"

\* C25: with ONTAP_CLEAR_CACHE set to "true", when tree-build finishes the
\* description of every API that was loaded is still in the cache: the
\* cache is not cleared again once an API has been cached
C25_ClearedOnceBeforeBuild ==
    (clearEnv /\ treePc = "done" /\ ~FallbackLogged) =>
        \A name \in DOMAIN config :
            ~FailureLogged(name) => Cached(config[name].APISpec)

(***************************************************************************)
(* C29: a panic in GetSpec                                                 *)
(***************************************************************************)
\* the API whose description is at loc
APIOf(loc) == CHOOSE name \in DOMAIN config : config[name].APISpec = loc

\* after a recovered panic tree-build goes on, the cache was cleared and
\* holds at most what the direct parse stored, and the API has its commands
\* if its description can be parsed
PanicBypassed ==
    (treePc \in {"building", "done"} /\ safeRet.called /\ safeRet.panicked) =>
        /\ safeRet.specNil
        /\ DOMAIN memoryCache \subseteq { generateCacheKey(safeRet.loc) }
        /\ DOMAIN disk \subseteq { GetCachePath(generateCacheKey(safeRet.loc)) }
        /\ Loadable(APIOf(safeRet.loc)) =>
              (~FailureLogged(APIOf(safeRet.loc)) /\ FullSet(APIOf(safeRet.loc)))

\* C29: when GetSpec panicked, safeGetSpec returned a nil document and a
\* non-nil error, the cache was cleared, and loadOpenAPISpec parsed the
\* description directly so that tree-build went on with the API's commands
C29_PanicReportedAsError ==
    (treePc \in {"building", "done"} /\ safeRet.called /\ safeRet.panicked) =>
        /\ safeRet.err # ""
        /\ PanicBypassed

(***************************************************************************)
(* C27: the cache key of the fallback                                      *)
(***************************************************************************)
\* the last load went through the fallback and its direct parse succeeded
FallbackStored ==
    /\ treePc \in {"building", "done"}
    /\ safeRet.called
    /\ safeRet.specNil
    /\ ~FailureLogged(APIOf(safeRet.loc))

\* a lookup by GetSpec for the location of the last load finds an entry
FoundByGetSpec ==
    Visible(memoryCache, disk, managerCacheKey(safeRet.loc)).present

\* the cache file the fallback writes for one location holds the document
\* of another location
SharedFile ==
    \E l1 \in TreeLocations, l2 \in TreeLocations :
        /\ l1 # l2
        /\ GetCachePath(generateCacheKey(l1)) \in DOMAIN disk
        /\ disk[GetCachePath(generateCacheKey(l1))].Spec.loc = l2

\* the fallback's entry is where GetSpec looks
C27_FallbackFound == FallbackStored => FoundByGetSpec

\* no two locations share a file
C27_NoSharedFile == ~SharedFile

\* C27: a description stored by the fallback of loadOpenAPISpec is found by
\* the next GetSpec for the same location, and no cache file holds the
\* document of a location other than the one it was written for
C27_FallbackKeyMatches ==
    /\ FallbackStored => FoundByGetSpec
    /\ ~SharedFile

(***************************************************************************)
(* C30: unsupported output format                                          *)
(***************************************************************************)
\* the invocation asked for a format NewFormatter does not know and was not
\* a dry run, and executeEndpoint has read its flags
UnsupportedRequested ==
    /\ frame # NoFrame
    /\ ~frame.dryRun
    /\ ~NewFormatter(frame.outputFormat)

\* C30: a non-dry-run invocation with an unsupported --output format never
\* sends the HTTP request, and ends with the formatter's error
C30_UnsupportedFormatBeforeSend ==
    UnsupportedRequested =>
        /\ sent = 0
        /\ pc = "done" => err = "failed to create formatter"

(***************************************************************************)
(* C26: the expiry clean-up of Get and a concurrent Set                    *)
(***************************************************************************)
\* the one call goroutine g has made is a Get that met an expired entry and
\* went on to delete it, or has deleted it
OnlyCleanUp(g) ==
    \/ /\ calls[g].op = "Get"
       /\ calls[g].done = 0
       /\ calls[g].pc \in {"del.mem", "del.file"}
    \/ /\ calls[g].op = "idle"
       /\ calls[g].done = 1
       /\ calls[g].last = "Get"
       /\ ~calls[g].ok
       /\ calls[g].entry # NoEntry

\* the last call of goroutine h was a Set that completed, of an entry that
\* has not expired
FreshSetCompleted(h) ==
    /\ calls[h].op = "idle"
    /\ calls[h].last = "Set"
    /\ ~IsExpired(calls[h].entry, now)

\* C26: while the only other caller is a Get on its expiry clean-up, the
\* non-expired entry of a completed Set stays in the memory index and in
\* the cache file
C26_CleanUpSparesFreshEntry ==
    \A g \in Goroutines, h \in Goroutines :
        (g # h /\ OnlyCleanUp(g) /\ FreshSetCompleted(h)) =>
            /\ theKey \in DOMAIN memoryCache
            /\ memoryCache[theKey] = calls[h].entry
            /\ GetCachePath(theKey) \in DOMAIN disk
            /\ disk[GetCachePath(theKey)] = calls[h].entry

=============================================================================
